---------------------------- MODULE Spec2Model ----------------------------
(***************************************************************************)
(* Model of the decision pipeline of the Clanker hexapod robot:            *)
(*   - RobotBrain._sanitize_action   (src/ai/brain.py)                     *)
(*   - BehaviorManager and the built-in behaviours (src/ai/behaviors.py)   *)
(*   - RobotBrain.think and its helpers (src/ai/brain.py)                  *)
(*   - ClankerRobot.execute_action (src/core/robot.py)                     *)
(*   - OpenRouterClient.chat (src/ai/openrouter_client.py)                 *)
(*   - HexapodController (src/subsystems/servos.py) and the two threads    *)
(*     that call it (src/gui.py, src/core/robot.py)                        *)
(*   - Leg.inverse_kinematics and Leg.move_to (src/subsystems/servos.py),  *)
(*     ServoController.set_angle (src/core/hardware.py)                    *)
(*   - ClankerRobot.start, its watchdog and its exception handling         *)
(*     (src/core/robot.py), with ClankerGUI.send_command beside it         *)
(*                                                                         *)
(* Python values are modelled as tagged records Val(k, v, s):              *)
(*   k = "missing"  the key is not in the dict                             *)
(*   k = "int"      a Python int, v its value                              *)
(*   k = "float"    a Python float, v its value in hundredths              *)
(*   k = "bool"     True/False, v = 1/0                                    *)
(*   k = "str"      a short string (under 200 characters), s its text     *)
(*   k = "text"     the first v characters of the free text named s        *)
(*   k = "intstr"   a string that is an integer literal, v its value       *)
(*   k = "floatstr" a string that is a float but not an integer literal,   *)
(*                  v its value in hundredths                              *)
(*   k = "none"     None (JSON null)                                       *)
(*   k = "list"     a list                                                 *)
(***************************************************************************)
EXTENDS Integers, Sequences, FiniteSets, TLC

VARIABLES
    \* ---- _sanitize_action applied to one input
    san_in,             \* the argument of _sanitize_action
    san_out,            \* its result, NotRun before the call
    \* ---- BehaviorManager
    behaviors,          \* the registered behaviours, in registration order
    current_behavior,   \* index into behaviors of the active one, 0 for None
    \* ---- RobotBrain
    llm_enabled,        \* an API key is configured
    has_client,         \* self.openrouter is not None
    llm_required,       \* the configuration marks the LLM as required
    last_decision_time, \* in tenths of a second
    decisions_made,     \* performance_metrics['decisions_made']
    behaviors_executed, \* performance_metrics['behaviors_executed'], 0 = no key
    state_history,      \* the recorded snapshots with their timestamps
    memory,             \* LongTermMemory.history: the saved interactions
    now,                \* time.time(), in tenths of a second
    \* ---- the calls made so far and what the last one did
    ticks,              \* number of calls of think / execute_behavior so far
    obs,                \* the last call: its argument, its branches, its result
    \* ---- ClankerRobot.execute_action
    exec_in,            \* the command and whether the snapshot has obstacles
    exec_out,           \* the call that reached the HexapodController
    heading,            \* self.heading, in hundredths of a degree
    \* ---- OpenRouterClient
    chat,               \* the position of chat in its loops, and what was sent
    \* ---- HexapodController
    legs,               \* the last position commanded to each leg
    motion,             \* per thread: the controller method it is inside
    \* ---- Leg.move_to applied to one target
    leg_in,             \* the leg and the target of move_to
    leg_out,            \* the angles the leg stores and the angles written
    \* ---- ClankerRobot.start and the GUI beside it
    loop,               \* the control loop: its position, its clock, its tallies
    gui_voice             \* current_state['voice_command'] and the commands typed

sanVars == <<san_in, san_out>>
mgrVars == <<behaviors, current_behavior>>
cfgVars == <<llm_enabled, has_client, llm_required>>
brainVars == <<last_decision_time, decisions_made, behaviors_executed,
               state_history, memory, now>>

vars == <<san_in, san_out, behaviors, current_behavior, llm_enabled, has_client,
          llm_required, last_decision_time, decisions_made, behaviors_executed,
          state_history, memory, now, ticks, obs,
          exec_in, exec_out, heading, chat, legs, motion,
          leg_in, leg_out, loop, gui_voice>>

robotVars == <<exec_in, exec_out, heading>>
hexVars == <<legs, motion>>
legVars == <<leg_in, leg_out>>
loopVars == <<loop, gui_voice>>
hwVars == <<exec_in, exec_out, heading, chat, legs, motion, leg_in, leg_out,
            loop, gui_voice>>

-----------------------------------------------------------------------------
(* Python values *)

Val(k, v, s) == [k |-> k, v |-> v, s |-> s]
Missing == Val("missing", 0, "")
NoneV == Val("none", 0, "")
ListV == Val("list", 0, "")
IntV(n) == Val("int", n, "")
FloatV(h) == Val("float", h, "")
BoolV(b) == Val("bool", IF b THEN 1 ELSE 0, "")
StrV(s) == Val("str", 0, s)
TextV(s, n) == Val("text", n, s)
IntStrV(n) == Val("intstr", n, ToString(n))
FloatStrV(h) == Val("floatstr", h, ToString(h) \o "e-2")

\* dict.get(key, default)
Get(x, default) == IF x.k = "missing" THEN default ELSE x

\* isinstance(x, str)
IsStr(x) == x.k \in {"str", "text", "intstr", "floatstr"}

\* int(x) raises ValueError/TypeError unless x is a number, a bool or an
\* integer literal
CanInt(x) == x.k \in {"int", "float", "bool", "intstr"}

\* int(x): floats are truncated towards zero
ToInt(x) ==
    IF x.k = "float"
    THEN (IF x.v >= 0 THEN x.v \div 100 ELSE -((-x.v) \div 100))
    ELSE x.v

\* float(x) raises unless x is a number, a bool or a numeric literal
CanFloat(x) == x.k \in {"int", "float", "bool", "intstr", "floatstr"}

\* float(x), in hundredths
ToFloat(x) == IF x.k \in {"float", "floatstr"} THEN x.v ELSE x.v * 100

\* str(x): the text of the string
StrOf(x) ==
    CASE x.k \in {"str", "text", "intstr", "floatstr"} -> x.s
      [] x.k = "none" -> "None"
      [] x.k = "list" -> "[]"
      [] x.k = "bool" -> (IF x.v = 1 THEN "True" ELSE "False")
      [] x.k = "int" -> ToString(x.v)
      [] x.k = "float" -> ToString(x.v) \o "e-2"
      [] OTHER -> ""

\* str(x) as a value: a string is returned as it is
ToStr(x) == IF IsStr(x) THEN x ELSE StrV(StrOf(x))

Max(a, b) == IF a >= b THEN a ELSE b
Min(a, b) == IF a <= b THEN a ELSE b

-----------------------------------------------------------------------------
(* Action dicts.  A dict is a record of the keys the pipeline reads or     *)
(* writes, each a Val (Missing when the key is absent); a non-dict value   *)
(* has isdict = FALSE; raised = TRUE stands for "the call raised".         *)

EmptyDict ==
    [raised |-> FALSE, isdict |-> TRUE, action |-> Missing,
     steps |-> Missing, speed |-> Missing, angle |-> Missing,
     leg_id |-> Missing, direction |-> Missing,
     reason |-> Missing, speech |-> Missing,
     behavior_name |-> Missing, code |-> Missing,
     reached_target |-> Missing,
     behavior |-> Missing, error |-> Missing]

NonDict == [EmptyDict EXCEPT !.isdict = FALSE]
Raised == [EmptyDict EXCEPT !.raised = TRUE]
Act(tag) == [EmptyDict EXCEPT !.action = StrV(tag)]

\* program constants of _sanitize_action
MinSteps == 1
MaxSteps == 10
MinSpeed == 5
MaxSpeed == 100
DefaultSpeed == 10
MaxAngle == 180
MaxLegId == 5
TextLimit == 200

\* allowed_actions with one more tag let through
allowed_actions_open ==
    {"walk_forward", "turn", "stand", "sit", "wave", "stop", "idle",
     "continue", "crab_walk", "fist_bump", "dance", "follow_person",
     "create_behavior", "jump"}

allowed_actions ==
    {"walk_forward", "turn", "stand", "sit", "wave", "stop", "idle",
     "continue", "crab_walk", "fist_bump", "dance", "follow_person",
     "create_behavior"}

\* a slice that keeps the whole string
TruncateNothing(x) == x

\* s[:200]
Truncate(x) == IF x.k = "text" /\ x.v > TextLimit THEN TextV(x.s, TextLimit) ELSE x

\* a steps clamp that wraps around instead of saturating
ClampStepsWrap(n) == (n % MaxSteps) + 1

\* max(1, min(10, steps))
ClampSteps(n) == Max(MinSteps, Min(MaxSteps, n))

\* max(0.05, min(1.0, speed)), in hundredths
ClampSpeed(h) == Max(MinSpeed, Min(MaxSpeed, h))

\* the angle clamp without its lower bound
ClampAngleNoFloor(h) == Min(MaxAngle * 100, h)

\* max(-180.0, min(180.0, angle)), in hundredths
ClampAngle(h) == Max(-(MaxAngle * 100), Min(MaxAngle * 100, h))

\* max(0, min(5, leg_id))
ClampLeg(n) == Max(0, Min(MaxLegId, n))

\* "left" if direction == "left" else "right"
NormDirection(d) == IF d = "left" THEN "left" ELSE "right"

\* the copy of reason and speech into out (brain.py 153-157)
WithText(out, action) ==
    [out EXCEPT
       !.reason = IF IsStr(action.reason) THEN Truncate(action.reason) ELSE Missing,
       !.speech = IF IsStr(action.speech) THEN Truncate(action.speech) ELSE Missing]

\* the per-tag branch of _sanitize_action (brain.py 159-181)
SanitizeFields(a, out, action) ==
    CASE a = "create_behavior" ->
           [out EXCEPT !.behavior_name = ToStr(Get(action.behavior_name, StrV("NewBehavior"))),
                       !.code = ToStr(Get(action.code, StrV("")))]
      [] a = "walk_forward" ->
           LET steps == Get(action.steps, IntV(1))
               speed == Get(action.speed, FloatV(DefaultSpeed))
           IN  IF ~CanInt(steps) \/ ~CanFloat(speed) THEN Raised
               ELSE [out EXCEPT !.steps = IntV(ClampSteps(ToInt(steps))),
                                !.speed = FloatV(ClampSpeed(ToFloat(speed)))]
      [] a = "turn" ->
           LET angle == Get(action.angle, FloatV(0))
               steps == Get(action.steps, IntV(1))
           IN  IF ~CanFloat(angle) \/ ~CanInt(steps) THEN Raised
               ELSE [out EXCEPT !.angle = FloatV(ClampAngle(ToFloat(angle))),
                                !.steps = IntV(ClampSteps(ToInt(steps)))]
      [] a = "crab_walk" ->
           LET direction == StrOf(Get(action.direction, StrV("left")))
               steps == Get(action.steps, IntV(1))
           IN  IF ~CanInt(steps) THEN Raised
               ELSE [out EXCEPT !.direction = StrV(NormDirection(direction)),
                                !.steps = IntV(ClampSteps(ToInt(steps)))]
      [] a = "wave" ->
           LET leg_id == Get(action.leg_id, IntV(0))
           IN  IF ~CanInt(leg_id) THEN Raised
               ELSE [out EXCEPT !.leg_id = IntV(ClampLeg(ToInt(leg_id)))]
      [] OTHER -> out

\* RobotBrain._sanitize_action
Sanitize(action) ==
    IF ~action.isdict
    THEN [Act("stop") EXCEPT !.reason = StrV("invalid_action_type")]
    ELSE LET a == StrOf(Get(action.action, StrV("stop")))
         IN  IF a \notin allowed_actions
             THEN [Act("stop") EXCEPT !.reason = StrV("unknown_action")]
             ELSE SanitizeFields(a, WithText(Act(a), action), action)

-----------------------------------------------------------------------------
(* Inputs of _sanitize_action *)

IntSamples == {-200, -181, -180, -3, 0, 1, 5, 6, 10, 11, 180, 181, 999}
FloatSamples == {-18001, -4550, -300, 4, 5, 50, 100, 101, 1050, 1100, 18000, 18001}

NumVals ==
    {Missing, NoneV, ListV, StrV("many"), BoolV(TRUE), IntStrV(7), FloatStrV(750)}
      \cup {IntV(n) : n \in IntSamples}
      \cup {FloatV(h) : h \in FloatSamples}

DirVals ==
    {Missing, NoneV, IntV(1), StrV("left"), StrV("right"), StrV("Left"),
     StrV("rigth"), StrV("up"), StrV("")}

TagVals ==
    {StrV(t) : t \in allowed_actions}
      \cup {Missing, NoneV, IntV(3), ListV, StrV("bogus"), StrV("Walk_Forward"),
            StrV("jump"), StrV("")}

TextVals == {Missing, NoneV, IntV(7), StrV("ok"), TextV("long", TextLimit),
             TextV("long", TextLimit + 1), TextV("long", TextLimit + 50)}

SanInputs ==
    {NonDict}
      \cup {[EmptyDict EXCEPT !.action = t, !.reason = r, !.speech = sp] :
               t \in TagVals, r \in TextVals, sp \in {Missing, TextV("hi", TextLimit + 3)}}
      \cup {[Act("walk_forward") EXCEPT !.steps = n, !.speed = x] :
               n \in NumVals, x \in NumVals}
      \cup {[Act("turn") EXCEPT !.angle = x, !.steps = n] :
               n \in NumVals, x \in NumVals}
      \cup {[Act("crab_walk") EXCEPT !.direction = d, !.steps = n] :
               d \in DirVals, n \in NumVals}
      \cup {[Act("wave") EXCEPT !.leg_id = n] : n \in NumVals}
      \cup {[Act("create_behavior") EXCEPT !.behavior_name = b, !.code = c] :
               b \in {Missing, StrV("Spin"), NoneV}, c \in {Missing, StrV("return True"), IntV(1)}}

NotRun == [EmptyDict EXCEPT !.isdict = FALSE, !.error = StrV("not run")]


-----------------------------------------------------------------------------
(* Sensor snapshots (the state dict handed to think and execute_behavior) *)

\* program constants of the built-in behaviours
ProximityThreshold == 500
DefaultFrameWidth == 640
ArrivalTolerance == 5
TurnTolerance == 10
AvoidPriority == 9
NavigatePriority == 7
ExplorePriority == 3

\* bounds of the model: calls of execute_behavior, registered behaviours
MaxTicks == 3
MaxCustom == 1

\* an obstacle: distance_estimate and position[0]; x Missing is an obstacle
\* dict without the 'position' key
Obstacle(d, x) == [distance |-> d, x |-> x]

ObstacleLists ==
    {<<>>,
     <<Obstacle(IntV(ProximityThreshold), IntV(100))>>,
     <<Obstacle(IntV(300), IntV(100))>>,
     <<Obstacle(IntV(300), Missing)>>,
     <<Obstacle(IntV(600), IntV(500)), Obstacle(IntV(300), IntV(100))>>}

NoNavInfo == [present |-> FALSE, bearing |-> Missing, distance |-> Missing]
NavInfo(b, d) == [present |-> TRUE, bearing |-> b, distance |-> d]

NavInfos ==
    {NoNavInfo, NavInfo(IntV(90), IntV(10)), NavInfo(NoneV, IntV(10))}

CustomNames == {"custom" \o ToString(i) : i \in 1..MaxCustom}

\* a snapshot dict; obstacles_none marks 'obstacles': None, which every
\* truth test of the list treats as the empty list
Snapshot(ob, task, target, nav, voice, on, fail) ==
    [valid |-> TRUE, obstacles |-> ob, obstacles_none |-> FALSE,
     current_task |-> task,
     navigation_target |-> target, navigation_info |-> nav,
     heading |-> 0, frame_width |-> DefaultFrameWidth, voice_command |-> voice,
     custom_on |-> on, custom_fail |-> fail]

\* a state that is not a dict
NotADict == [Snapshot(<<>>, "none", "none", NoNavInfo, Missing, {}, FALSE) EXCEPT !.valid = FALSE]

-----------------------------------------------------------------------------
(* Behaviours (src/ai/behaviors.py) *)

Behavior(name, kind, priority) ==
    [name |-> name, kind |-> kind, priority |-> priority,
     success_count |-> 0, failure_count |-> 0]

\* AvoidObstacleBehavior.should_activate: some obstacle is closer than 500
\* (an obstacle without distance_estimate counts as infinitely far)
AvoidShouldActivate(st) ==
    \E i \in 1..Len(st.obstacles) :
        /\ st.obstacles[i].distance.k # "missing"
        /\ st.obstacles[i].distance.v < ProximityThreshold

\* should_activate of each behaviour kind; a registered custom behaviour's
\* predicate is any function of the snapshot, given here by custom_on
ShouldActivate(b, st) ==
    CASE b.kind = "avoid" -> AvoidShouldActivate(st)
      [] b.kind = "navigate" -> st.navigation_target # "none"
      [] b.kind = "explore" -> st.current_task = "none"
      [] OTHER -> b.name \in st.custom_on

\* a NavigateToTargetBehavior.execute without its while loops
NormalizeNothing(a) == a

\* the while loops of NavigateToTargetBehavior.execute
RECURSIVE NormalizeAngle(_)
NormalizeAngle(a) ==
    IF a > 180 THEN NormalizeAngle(a - 360)
    ELSE IF a < -180 THEN NormalizeAngle(a + 360)
    ELSE a

Abs(a) == IF a < 0 THEN -a ELSE a

Turn(angle, steps) == [Act("turn") EXCEPT !.angle = IntV(angle), !.steps = IntV(steps)]
Walk(steps) == [Act("walk_forward") EXCEPT !.steps = IntV(steps)]

ExploreExecute(st) ==
    IF st.obstacles # <<>> THEN Turn(45, 2) ELSE Walk(1)

AvoidExecute(st) ==
    IF st.obstacles # <<>>
    THEN LET center_x == st.obstacles[1].x
         IN  IF center_x.k = "missing" THEN Raised
             ELSE IF 2 * center_x.v < st.frame_width THEN Turn(-45, 2)
             ELSE Turn(45, 2)
    ELSE Act("stop")

NavigateExecute(st) ==
    LET nav == st.navigation_info IN
    IF ~nav.present THEN Act("stop")
    ELSE IF nav.distance.k \in {"none", "missing"} \/ nav.distance.v < ArrivalTolerance
    THEN [Act("stop") EXCEPT !.reached_target = BoolV(TRUE)]
    ELSE IF nav.bearing.k \in {"none", "missing"} THEN Raised
    ELSE LET turn_angle == NormalizeAngle(nav.bearing.v - st.heading)
         IN  IF Abs(turn_angle) > TurnTolerance THEN Turn(turn_angle, 1) ELSE Walk(1)

\* execute of each behaviour kind; a custom behaviour returns idle or raises
Execute(b, st) ==
    CASE b.kind = "avoid" -> AvoidExecute(st)
      [] b.kind = "navigate" -> NavigateExecute(st)
      [] b.kind = "explore" -> ExploreExecute(st)
      [] OTHER -> IF st.custom_fail THEN Raised ELSE Act("idle")

\* BehaviorManager.__init__: the three default behaviours, in this order
DefaultBehaviors ==
    <<Behavior("avoid_obstacle", "avoid", AvoidPriority),
      Behavior("navigate_to_target", "navigate", NavigatePriority),
      Behavior("explore", "explore", ExplorePriority)>>

\* [b for b in self.behaviors if b.should_activate(state)], as indices
Candidates(bs, st) ==
    SelectSeq([i \in 1..Len(bs) |-> i], LAMBDA i : ShouldActivate(bs[i], st))

\* list.sort(key=priority, reverse=True) is stable: an element goes after
\* every element of the same or a higher priority that precedes it
RECURSIVE InsertByPriority(_, _, _)
InsertByPriority(bs, s, i) ==
    IF s = <<>> THEN <<i>>
    ELSE IF bs[Head(s)].priority >= bs[i].priority
    THEN <<Head(s)>> \o InsertByPriority(bs, Tail(s), i)
    ELSE <<i>> \o s

RECURSIVE SortByPriority(_, _)
SortByPriority(bs, c) ==
    IF c = <<>> THEN <<>>
    ELSE InsertByPriority(bs, SortByPriority(bs, SubSeq(c, 1, Len(c) - 1)), c[Len(c)])

\* a selection that takes the candidate of the lowest priority
select_behavior_lowest(bs, st) ==
    LET c == Candidates(bs, st)
    IN  IF c # <<>>
        THEN CHOOSE i \in {c[k] : k \in 1..Len(c)} :
                \A k \in 1..Len(c) :
                    \/ bs[i].priority < bs[c[k]].priority
                    \/ (bs[i].priority = bs[c[k]].priority /\ i <= c[k])
        ELSE 0

\* a selection that takes the last of the candidates of the highest priority
select_behavior_last(bs, st) ==
    LET c == Candidates(bs, st)
        top == {i \in 1..Len(c) : \A j \in 1..Len(c) : bs[c[i]].priority >= bs[c[j]].priority}
    IN  IF c # <<>> THEN c[CHOOSE i \in top : \A j \in top : i >= j] ELSE 0

\* BehaviorManager.select_behavior: index of the selected behaviour, 0 for None
select_behavior(bs, st) ==
    LET candidates == SortByPriority(bs, Candidates(bs, st))
    IN  IF candidates # <<>> THEN candidates[1] ELSE 0

\* a manager that selects afresh in every tick
NeedsSelectionAlways(bs, cur, st) == TRUE

\* the test of execute_behavior (behaviors.py 209): no behaviour is active,
\* or the active one's predicate is false
NeedsSelection(bs, cur, st) == cur = 0 \/ ~ShouldActivate(bs[cur], st)

\* self.current_behavior.success_count += 1
RecordSuccess(bs, c) == [bs EXCEPT ![c].success_count = @ + 1]

\* a failure that is counted as a success
RecordFailureAsSuccess(bs, c) == [bs EXCEPT ![c].success_count = @ + 1]

\* self.current_behavior.failure_count += 1
RecordFailure(bs, c) == [bs EXCEPT ![c].failure_count = @ + 1]

\* BehaviorManager.execute_behavior: the manager after the call, the action
\* returned, and which branches were taken
execute_behavior(bs, cur, st) ==
    LET reselect == NeedsSelection(bs, cur, st)
        c == IF reselect THEN select_behavior(bs, st) ELSE cur
    IN  IF c = 0
        THEN [behaviors |-> bs, current |-> 0, result |-> Act("idle"),
              reselected |-> reselect, executed |-> 0, raised |-> FALSE]
        ELSE LET result == Execute(bs[c], st)
             IN  IF result.raised
                 THEN [behaviors |-> RecordFailure(bs, c),
                       current |-> 0, result |-> Act("stop"),
                       reselected |-> reselect, executed |-> c, raised |-> TRUE]
                 ELSE [behaviors |-> RecordSuccess(bs, c),
                       current |-> c, result |-> result,
                       reselected |-> reselect, executed |-> c, raised |-> FALSE]

-----------------------------------------------------------------------------
(* ClankerRobot.execute_action (src/core/robot.py) *)

\* the limits execute_action puts on a movement while the snapshot has obstacles
RestrictedSteps == 1
RestrictedAngle == 30

\* isinstance(x, (int, float)); a bool is an int
IsNumber(x) == x.k \in {"int", "float", "bool"}

\* min(x, y) of two numbers: y when y < x, else x
PyMin(x, y) == IF ToFloat(y) < ToFloat(x) THEN y ELSE x

\* abs(x) of a number
PyAbs(x) ==
    IF x.k = "float" THEN FloatV(IF x.v < 0 THEN -x.v ELSE x.v)
    ELSE IntV(IF x.v < 0 THEN -x.v ELSE x.v)

\* a call of a HexapodController method with its arguments: speed in
\* hundredths of a second, angle in hundredths of a degree
HexCall(op, steps, speed, angle, leg_id, direction) ==
    [op |-> op, steps |-> steps, speed |-> speed, angle |-> angle,
     leg_id |-> leg_id, direction |-> direction]
NoCall == HexCall("none", 0, 0, 0, 0, "")

\* an execute_action that restricts nothing
RestrictNothing(action, obstacles) == action

\* the safety check of execute_action (robot.py 237-244); min and abs raise
\* TypeError on a value that is not a number
Restrict(action, obstacles) ==
    LET action_type == Get(action.action, StrV("idle"))
    IN  IF ~obstacles THEN action
        ELSE IF action_type = StrV("walk_forward")
        THEN LET steps == Get(action.steps, IntV(1))
             IN  IF IsNumber(steps)
                 THEN [action EXCEPT !.steps = PyMin(steps, IntV(RestrictedSteps))]
                 ELSE Raised
        ELSE IF action_type = StrV("turn")
        THEN LET angle == Get(action.angle, IntV(0))
             IN  IF IsNumber(angle)
                 THEN [action EXCEPT !.angle = PyMin(PyAbs(angle), IntV(RestrictedAngle))]
                 ELSE Raised
        ELSE action

\* the sanity check of the steps without the clamp that follows it
StepsArgNoClamp(x) ==
    IF ~IsNumber(x) \/ ToFloat(x) < 100 THEN 1 ELSE ToInt(x)

\* the sanity checks and clamps of execute_action (robot.py 250-257, 266-276,
\* 288-294); they repeat the limits of _sanitize_action
StepsArg(x) ==
    LET steps == IF ~IsNumber(x) \/ ToFloat(x) < 100 THEN IntV(1) ELSE x
    IN  Max(MinSteps, Min(MaxSteps, ToInt(steps)))

SpeedArg(x) ==
    LET speed == IF ~IsNumber(x) \/ ToFloat(x) < MinSpeed THEN FloatV(DefaultSpeed) ELSE x
    IN  Max(MinSpeed, Min(MaxSpeed, ToFloat(speed)))

AngleArg(x) ==
    LET angle == IF ~IsNumber(x) THEN IntV(0) ELSE x
    IN  Max(-(MaxAngle * 100), Min(MaxAngle * 100, ToFloat(angle)))

LegArg(x) ==
    LET leg_id == IF ~IsNumber(x) THEN IntV(0) ELSE x
    IN  Max(0, Min(MaxLegId, ToInt(leg_id)))

\* ClankerRobot.execute_action(action) with heading hd: the controller call
\* it makes, the heading afterwards, and whether an exception escapes (for a
\* value without .get).  An exception inside the try is answered by sit().
execute_action(action, obstacles, hd) ==
    IF ~action.isdict
    THEN [call |-> NoCall, heading |-> hd, escaped |-> TRUE]
    ELSE
    LET action_type == Get(action.action, StrV("idle"))
        a == Restrict(action, obstacles)
    IN  IF a.raised
        THEN [call |-> HexCall("sit", 0, 0, 0, 0, ""), heading |-> hd, escaped |-> FALSE]
        ELSE IF action_type = StrV("walk_forward")
        THEN [call |-> HexCall("walk_forward", StepsArg(Get(a.steps, IntV(1))),
                               SpeedArg(Get(a.speed, FloatV(DefaultSpeed))), 0, 0, ""),
              heading |-> hd, escaped |-> FALSE]
        ELSE IF action_type = StrV("turn")
        THEN LET angle == AngleArg(Get(a.angle, IntV(0)))
             IN  [call |-> HexCall("turn", StepsArg(Get(a.steps, IntV(1))),
                                   DefaultSpeed, angle, 0, ""),
                  heading |-> (hd + angle) % 36000, escaped |-> FALSE]
        ELSE IF action_type = StrV("stand")
        THEN [call |-> HexCall("stand", 0, 0, 0, 0, ""), heading |-> hd, escaped |-> FALSE]
        ELSE IF action_type = StrV("sit")
        THEN [call |-> HexCall("sit", 0, 0, 0, 0, ""), heading |-> hd, escaped |-> FALSE]
        ELSE IF action_type = StrV("wave")
        THEN [call |-> HexCall("wave_leg", 0, 0, 0, LegArg(Get(a.leg_id, IntV(0))), ""),
              heading |-> hd, escaped |-> FALSE]
        ELSE [call |-> NoCall, heading |-> hd, escaped |-> FALSE]

\* the argument of execute_action and the snapshot's obstacles
ExecIn(action, obstacles) == [action |-> action, obstacles |-> obstacles]

NotExecuted == [call |-> NoCall, heading |-> 0, escaped |-> FALSE, done |-> FALSE]

\* no command was handed to execute_action
RobotIdle ==
    /\ exec_in = ExecIn(NonDict, FALSE)
    /\ exec_out = NotExecuted
    /\ heading = 0

-----------------------------------------------------------------------------
(* Leg (src/subsystems/servos.py) and ServoController.set_angle           *)
(* (src/core/hardware.py).  Lengths are computed in hundredths of a        *)
(* millimetre, angles in whole degrees, sines and cosines times 10000.     *)

\* the segment lengths HexapodController.__init__ gives each leg, in mm
coxa_length == 30
femur_length == 60
tibia_length == 80

\* the centre position of a servo and its straight angle, in degrees
ServoCentre == 90
ServoStraight == 180

\* the angles a servo accepts
ServoMin == 0
ServoMax == 180

\* 10000 * sin of 0, 1, .. 90 degrees
SinTable ==
    <<
      0, 175, 349, 523, 698, 872, 1045, 1219, 1392, 1564,
      1736, 1908, 2079, 2250, 2419, 2588, 2756, 2924, 3090, 3256,
      3420, 3584, 3746, 3907, 4067, 4226, 4384, 4540, 4695, 4848,
      5000, 5150, 5299, 5446, 5592, 5736, 5878, 6018, 6157, 6293,
      6428, 6561, 6691, 6820, 6947, 7071, 7193, 7314, 7431, 7547,
      7660, 7771, 7880, 7986, 8090, 8192, 8290, 8387, 8480, 8572,
      8660, 8746, 8829, 8910, 8988, 9063, 9135, 9205, 9272, 9336,
      9397, 9455, 9511, 9563, 9613, 9659, 9703, 9744, 9781, 9816,
      9848, 9877, 9903, 9925, 9945, 9962, 9976, 9986, 9994, 9998,
      10000
    >>

\* 10000 * math.sin of an angle of h hundredths of a degree, 0 <= h <= 9000,
\* between two entries of the table
SinQuadrant(h) ==
    LET k == h \div 100
        f == h % 100
    IN  IF f = 0 THEN SinTable[k + 1]
        ELSE SinTable[k + 1] + ((SinTable[k + 2] - SinTable[k + 1]) * f) \div 100

\* 10000 * math.sin and 10000 * math.cos of h hundredths of a degree
Sin(h) ==
    LET m == h % 36000
    IN  IF m <= 9000 THEN SinQuadrant(m)
        ELSE IF m <= 18000 THEN SinQuadrant(18000 - m)
        ELSE IF m <= 27000 THEN -SinQuadrant(m - 18000)
        ELSE -SinQuadrant(36000 - m)

Cos(h) == Sin(h + 9000)

\* math.sqrt of n, rounded down
RECURSIVE SqrtBetween(_, _, _)
SqrtBetween(n, lo, hi) ==
    IF lo >= hi THEN lo
    ELSE LET mid == (lo + hi + 1) \div 2
         IN  IF mid * mid <= n THEN SqrtBetween(n, mid, hi)
             ELSE SqrtBetween(n, lo, mid - 1)

Sqrt(n) == SqrtBetween(n, 0, 46340)

\* math.degrees(math.atan2(y, x)), to the nearest degree
Atan2(y, x) ==
    LET ax == IF x < 0 THEN -x ELSE x
        ay == IF y < 0 THEN -y ELSE y
        Below(k) == k = 0 \/ Sin(100 * k - 50) * ax <= Cos(100 * k - 50) * ay
        a == IF ay = 0 THEN 0
             ELSE CHOOSE k \in 0..90 : Below(k) /\ (k = 90 \/ ~Below(k + 1))
    IN  IF x >= 0 /\ y >= 0 THEN a
        ELSE IF x < 0 /\ y >= 0 THEN 180 - a
        ELSE IF x < 0 THEN a - 180
        ELSE -a

\* math.degrees(math.acos(c / 10000)), to the nearest degree
Acos(c) ==
    LET Above(k) == k = 0 \/ Cos(100 * k - 50) >= c
    IN  CHOOSE k \in 0..180 : Above(k) /\ (k = 180 \/ ~Above(k + 1))

\* a result of inverse_kinematics: the three servo angles in degrees, or
\* raised when the call ended in an exception
Angles(coxa, femur, tibia) ==
    [raised |-> FALSE, coxa |-> coxa, femur |-> femur, tibia |-> tibia]
IKRaised == [raised |-> TRUE, coxa |-> 0, femur |-> 0, tibia |-> 0]

\* Leg.inverse_kinematics(x, y, z), the target in hundredths of a mm.  The
\* division by 2 * femur_length * d raises ZeroDivisionError when d is 0.
inverse_kinematics(x, y, z) ==
    LET coxa_angle == Atan2(y, x)
        r == Sqrt(x * x + y * y) - coxa_length * 100
        reach == Sqrt(r * r + z * z)
        max_reach == (femur_length + tibia_length) * 100
        d == IF reach > max_reach THEN max_reach ELSE reach
        f2 == femur_length * femur_length * 10000
        t2 == tibia_length * tibia_length * 10000
        cos_femur == Max(-10000, Min(10000,
                         (((f2 + d * d - t2) \div femur_length) * 50) \div d))
        femur_angle == Acos(cos_femur) + Atan2(z, r)
        cos_tibia == Max(-10000, Min(10000,
                         (f2 + t2 - d * d) \div (2 * femur_length * tibia_length)))
        tibia_angle == ServoStraight - Acos(cos_tibia)
    IN  IF d = 0 THEN IKRaised
        ELSE Angles(ServoCentre + coxa_angle, ServoCentre - femur_angle,
                    ServoStraight - tibia_angle)

\* a ServoController.set_angle that hands the angle on as it is
set_angle_unclamped(angle) == angle

\* ServoController.set_angle(servo_id, angle): the angle that reaches the
\* servo, or the log in simulation mode
set_angle(angle) == Max(ServoMin, Min(ServoMax, angle))

\* the servo of the coxa of a leg (Leg.__init__): left legs on 0..8, right
\* legs on 16..24; the femur and the tibia follow it
coxa_servo(leg_id) ==
    IF leg_id % 2 = 0 THEN (leg_id \div 2) * 3 ELSE 16 + (leg_id \div 2) * 3

\* one call servo_controller.set_angle(servo_id, angle) and what it wrote
Written(servo_id, angle) == [servo_id |-> servo_id, angle |-> set_angle(angle)]

\* a leg as Leg.__init__ leaves it: the three angles at 90, nothing written
NotMoved ==
    [done |-> FALSE, raised |-> FALSE, coxa_angle |-> ServoCentre,
     femur_angle |-> ServoCentre, tibia_angle |-> ServoCentre, written |-> <<>>]

\* Leg.move_to(x, y, z) of leg leg_id, the target in mm: inverse_kinematics,
\* then set_angles, which stores the three angles as they are and hands each
\* to ServoController.set_angle.  An exception of inverse_kinematics leaves
\* the leg as it was.
move_to(leg, leg_id, x, y, z) ==
    LET a == inverse_kinematics(x * 100, y * 100, z * 100)
    IN  IF a.raised THEN [leg EXCEPT !.done = TRUE, !.raised = TRUE]
        ELSE [done |-> TRUE, raised |-> FALSE,
              coxa_angle |-> a.coxa, femur_angle |-> a.femur, tibia_angle |-> a.tibia,
              written |-> <<Written(coxa_servo(leg_id), a.coxa),
                            Written(coxa_servo(leg_id) + 1, a.femur),
                            Written(coxa_servo(leg_id) + 2, a.tibia)>>]

\* the arguments of one move_to
LegIn(leg_id, x, y, z) == [leg_id |-> leg_id, x |-> x, y |-> y, z |-> z]

\* no move_to was called on its own
LegIdle ==
    /\ leg_in = LegIn(0, 0, 0, 0)
    /\ leg_out = NotMoved

-----------------------------------------------------------------------------
(* HexapodController (src/subsystems/servos.py) *)

\* gait parameters of HexapodController.__init__, in mm
StanceHeight == -50
LiftHeight == -30
SitHeight == -80
StepLength == 30
CrabStepLength == 30
WaveReach == 20
WaveCount == 2

LegIds == 0..5
tripod1 == <<0, 3, 4>>

\* a second group that shares a leg with the first
tripod2_overlapping == <<1, 2, 4>>

tripod2 == <<1, 2, 5>>

\* legs[leg_id].move_to(x + dx, y + dy, z), where (x, y) is the leg's place
\* in leg_positions, rotated first by rot hundredths of a degree (the
\* angle / steps of turn; 0 in every other method)
LegMove(leg_id, dx, dy, rot, z) ==
    [leg_id |-> leg_id, dx |-> dx, dy |-> dy, rot |-> rot, z |-> z]

\* the position a leg was last sent to
LegAt(dx, dy, rot, z) == [dx |-> dx, dy |-> dy, rot |-> rot, z |-> z]

\* the pose stand() leaves
Standing == [i \in LegIds |-> LegAt(0, 0, 0, StanceHeight)]

\* HexapodController.leg_positions: the anchor (x, y) of each leg, in mm
leg_positions ==
    <<<<40, 30>>, <<40, -30>>, <<0, 30>>, <<0, -30>>, <<-40, 30>>, <<-40, -30>>>>

\* the target of the move_to that sent leg leg_id to at, in hundredths of a mm
Target(leg_id, at) ==
    LET x == leg_positions[leg_id + 1][1]
        y == leg_positions[leg_id + 1][2]
    IN  [x |-> (x * Cos(at.rot) - y * Sin(at.rot)) \div 100 + at.dx * 100,
         y |-> (x * Sin(at.rot) + y * Cos(at.rot)) \div 100 + at.dy * 100,
         z |-> at.z * 100]

\* the coxa_angle, femur_angle and tibia_angle leg leg_id of the controller
\* stores in the pose: what inverse_kinematics returned for its last target
StoredAngles(pose, leg_id) ==
    LET t == Target(leg_id, pose[leg_id])
    IN  inverse_kinematics(t.x, t.y, t.z)

\* for leg_id in group: move_to(..)
ForEach(group, dx, dy, rot, z) ==
    [i \in 1..Len(group) |-> LegMove(group[i], dx, dy, rot, z)]

\* a walk_forward step whose second phase lifts tripod2 before tripod1 is down
WalkStepEarlyLift ==
    ForEach(tripod1, 0, 0, 0, LiftHeight)
      \o ForEach(tripod2, StepLength, 0, 0, StanceHeight)
      \o ForEach(tripod2, 0, 0, 0, LiftHeight)
      \o ForEach(tripod1, StepLength, 0, 0, StanceHeight)
      \o ForEach(tripod2, 0, 0, 0, StanceHeight)

\* a walk_forward step that leaves tripod2 in the air: no third phase
WalkStepNoLower ==
    ForEach(tripod1, 0, 0, 0, LiftHeight)
      \o ForEach(tripod2, StepLength, 0, 0, StanceHeight)
      \o ForEach(tripod1, StepLength, 0, 0, StanceHeight)
      \o ForEach(tripod2, 0, 0, 0, LiftHeight)

\* one pass of the loop of walk_forward: its three phases
WalkStep ==
    ForEach(tripod1, 0, 0, 0, LiftHeight)
      \o ForEach(tripod2, StepLength, 0, 0, StanceHeight)
      \o ForEach(tripod1, StepLength, 0, 0, StanceHeight)
      \o ForEach(tripod2, 0, 0, 0, LiftHeight)
      \o ForEach(tripod2, 0, 0, 0, StanceHeight)

\* one pass of the loop of crab_walk
CrabStep(direction) ==
    LET y_step == IF direction = "left" THEN CrabStepLength ELSE -CrabStepLength
    IN  ForEach(tripod1, 0, 0, 0, LiftHeight)
          \o ForEach(tripod2, 0, y_step, 0, StanceHeight)
          \o ForEach(tripod1, 0, y_step, 0, StanceHeight)
          \o ForEach(tripod2, 0, 0, 0, LiftHeight)
          \o ForEach(tripod2, 0, 0, 0, StanceHeight)

\* one pass of the loop of turn, rotation = angle / steps
TurnStep(rotation) ==
    ForEach(tripod1, 0, 0, rotation, LiftHeight)
      \o ForEach(tripod1, 0, 0, rotation, StanceHeight)
      \o ForEach(tripod2, 0, 0, 0, LiftHeight)
      \o ForEach(tripod2, 0, 0, 0, StanceHeight)

\* for step in range(steps): the moves of one pass, steps times
RECURSIVE Repeat(_, _)
Repeat(moves, steps) ==
    IF steps <= 0 THEN <<>> ELSE moves \o Repeat(moves, steps - 1)

\* a wave_leg that takes any leg id, counting round the six legs
wave_leg_unguarded(leg_id) ==
    Repeat(<<LegMove(leg_id % 6, WaveReach, 0, 0, LiftHeight),
             LegMove(leg_id % 6, 0, 0, 0, StanceHeight)>>, WaveCount)

\* the move_to calls of wave_leg(leg_id): none for a leg id outside 0..5
wave_leg(leg_id) ==
    IF leg_id < 0 \/ leg_id >= 6 THEN <<>>
    ELSE Repeat(<<LegMove(leg_id, WaveReach, 0, 0, LiftHeight),
                  LegMove(leg_id, 0, 0, 0, StanceHeight)>>, WaveCount)

\* the move_to calls a controller method makes, in order
Moves(call) ==
    CASE call.op = "walk_forward" -> Repeat(WalkStep, call.steps)
      [] call.op = "crab_walk" -> Repeat(CrabStep(call.direction), call.steps)
      [] call.op = "turn" ->
            Repeat(TurnStep(call.angle \div call.steps), call.steps)
      [] call.op = "stand" ->
            [i \in 1..6 |-> LegMove(i - 1, 0, 0, 0, StanceHeight)]
      [] call.op = "sit" ->
            [i \in 1..6 |-> LegMove(i - 1, 0, 0, 0, SitHeight)]
      [] call.op = "wave_leg" -> wave_leg(call.leg_id)
      [] OTHER -> <<>>

\* the threads that call the controller: the control loop started by
\* toggle_robot (ClankerRobot.start) and the Tk thread of the GUI
Threads == {"loop", "gui"}

\* a thread that is not inside a controller method
Outside == [call |-> NoCall, moves |-> <<>>]

\* a thread that has entered the controller method of call
Inside(call) == [call |-> call, moves |-> Moves(call)]

\* the controller after stand(), with no method running
HexIdle ==
    /\ legs = Standing
    /\ motion = [th \in Threads |-> Outside]

\* a thread enters a controller method: nothing guards the entry
HexEnter(th, call) ==
    /\ motion[th].call.op = "none"
    /\ motion' = [motion EXCEPT ![th] = Inside(call)]
    /\ UNCHANGED legs

\* the next move_to of the method thread th is inside
HexMove(th) ==
    /\ motion[th].moves # <<>>
    /\ LET m == Head(motion[th].moves)
       IN  legs' = [legs EXCEPT ![m.leg_id] = LegAt(m.dx, m.dy, m.rot, m.z)]
    /\ motion' = [motion EXCEPT ![th].moves = Tail(@)]

\* the method returns after its last move_to (and the sleep that follows)
HexReturn(th) ==
    /\ motion[th].call.op # "none"
    /\ motion[th].moves = <<>>
    /\ motion' = [motion EXCEPT ![th] = Outside]
    /\ UNCHANGED legs

-----------------------------------------------------------------------------
(* OpenRouterClient (src/ai/openrouter_client.py) *)

\* self.all_models: config.model followed by config.fallback_models
all_models == <<"primary", "fallback">>

\* bounds of the model: config.max_retries and the calls of chat
MaxRetries == 1
MaxChats == 2

\* what one requests.post can lead to: a usable reply, HTTP 429, HTTP 404,
\* or an exception (timeout, another status >= 400, a reply without content);
\* "rate_text" is an exception whose text speaks of the rate limit, such as
\* a status >= 400 other than 429 whose body says "Rate limit exceeded"
Statuses == {"ok", "http429", "http404", "error", "rate_text"}

\* str(e) of the exceptions chat can hand to its caller holds "429" or
\* "Rate limit": the text is "All models failed. Last error: " followed by
\* str(last_err), and last_err is None unless an attempt raised
MentionsRateLimit(last_err) == last_err = "rate_text"

\* a request that was sent: the call of chat, the model (index into
\* all_models), the attempt and what came back
Request(call, model, attempt, status) ==
    [call |-> call, model |-> model, attempt |-> attempt, status |-> status]
NoRequest == Request(0, 0, 0, "none")

\* a chat whose retry loop runs once more than max_retries + 1 times
NextPositionExtraAttempt(model, attempt, status) ==
    IF status \in {"http429", "http404"} THEN [model |-> model + 1, attempt |-> 0]
    ELSE IF attempt <= MaxRetries THEN [model |-> model, attempt |-> attempt + 1]
    ELSE [model |-> model + 1, attempt |-> 0]

\* a chat that retries the same model after HTTP 429
NextPositionRetry429(model, attempt, status) ==
    IF status = "http404" THEN [model |-> model + 1, attempt |-> 0]
    ELSE IF attempt < MaxRetries THEN [model |-> model, attempt |-> attempt + 1]
    ELSE [model |-> model + 1, attempt |-> 0]

\* where the loops of chat go after a request that did not return: 429 and
\* 404 break the retry loop, an exception retries until max_retries is used
NextPosition(model, attempt, status) ==
    IF status \in {"http429", "http404"} THEN [model |-> model + 1, attempt |-> 0]
    ELSE IF attempt < MaxRetries THEN [model |-> model, attempt |-> attempt + 1]
    ELSE [model |-> model + 1, attempt |-> 0]

\* the client: whether it has an API key, whether chat is running and where,
\* its last_err, how chat ended, and what was sent: the number of requests,
\* the last one, the models that answered 404 or 429 in the running call,
\* the models that ever answered 404, the number of requests of the running
\* call and the models that answered 429 in it
ChatIdleState ==
    [active |-> FALSE, calls |-> 0, model |-> 0, attempt |-> 0,
     last_err |-> "None", result |-> "none",
     sent |-> 0, last |-> NoRequest, definitive |-> {}, not_found |-> {},
     api_key |-> TRUE, requests |-> 0, limited |-> {}]

ChatIdle == chat = ChatIdleState

\* chat(messages) is called: without an API key it raises at once
\* ('No API key found'), with one it enters the loop over all_models
ChatBegin ==
    /\ ~chat.active
    /\ chat.calls < MaxChats
    /\ chat' = IF ~chat.api_key
               THEN [chat EXCEPT !.calls = @ + 1, !.result = "no_key",
                                 !.requests = 0, !.limited = {}]
               ELSE [chat EXCEPT !.active = TRUE, !.calls = @ + 1, !.model = 1,
                                 !.attempt = 0, !.last_err = "None",
                                 !.result = "none", !.definitive = {},
                                 !.requests = 0, !.limited = {}]

\* one requests.post of chat and what the loops do with its outcome
ChatRequest ==
    /\ chat.active
    /\ \E status \in Statuses :
         LET pos == NextPosition(chat.model, chat.attempt, status)
             sent == [chat EXCEPT
                        !.sent = @ + 1,
                        !.last = Request(chat.calls, chat.model, chat.attempt, status),
                        !.definitive = IF status \in {"http429", "http404"}
                                       THEN @ \cup {chat.model} ELSE @,
                        !.not_found = IF status = "http404"
                                      THEN @ \cup {all_models[chat.model]} ELSE @,
                        !.last_err = IF status \in {"error", "rate_text"}
                                     THEN status ELSE @,
                        !.requests = @ + 1,
                        !.limited = IF status = "http429"
                                    THEN @ \cup {chat.model} ELSE @]
         IN  chat' =
               IF status = "ok"
               THEN [sent EXCEPT !.active = FALSE, !.result = "content"]
               ELSE IF pos.model > Len(all_models)
               THEN [sent EXCEPT !.active = FALSE, !.result = "raised"]
               ELSE [sent EXCEPT !.model = pos.model, !.attempt = pos.attempt]

-----------------------------------------------------------------------------
(* ClankerRobot.start and run_cycle (src/core/robot.py), with the GUI      *)
(* beside them (src/gui.py).  Times are in tenths of a second.             *)

\* watchdog_timeout of start, the pause before the recovery sit, the sleep
\* at the end of sit(), and config['ai']['decision_interval']
WatchdogTimeout == 50
RecoveryPause == 5
SitPause == 5
CycleInterval == 5

\* the control loop before start() is called
LoopIdleState ==
    [pc |-> "idle", running |-> FALSE, clock |-> 0, last_cycle_time |-> 0,
     cycle_start |-> 0, cycles |-> 0, executions |-> 0, warnings |-> 0,
     sits |-> 0, failures |-> 0, exit |-> "", lasted |-> 0,
     warned_since |-> FALSE, sat_since |-> FALSE]

\* no command was typed: current_state has no 'voice_command'
VoiceIdle == [slot |-> 0, typed |-> 0, heard |-> <<>>]

\* the control loop is not part of the run
LoopIdle ==
    /\ loop = LoopIdleState
    /\ gui_voice = VoiceIdle

\* the top of a pass of `while self.running` (robot.py 372-378): cycle_start
\* is read, and the watchdog compares it with last_cycle_time; past the
\* timeout it logs a warning and moves last_cycle_time, nothing else
WatchdogCheck(l) ==
    LET started == [l EXCEPT !.cycle_start = l.clock, !.cycles = @ + 1,
                             !.pc = "update"]
    IN  IF l.clock - l.last_cycle_time > WatchdogTimeout
        THEN [started EXCEPT !.warnings = @ + 1, !.last_cycle_time = l.clock,
                             !.warned_since = TRUE]
        ELSE started

\* a handler of the pass that treats every exception as the end of the loop
on_cycle_error_fatal(l, kind) ==
    [l EXCEPT !.pc = "ended", !.exit = "fatal", !.running = FALSE,
              !.failures = @ + 1, !.lasted = l.clock - l.cycle_start,
              !.warned_since = FALSE, !.sat_since = TRUE, !.sits = @ + 1]

\* run_cycle raised (robot.py 383-386): KeyboardInterrupt is raised again and
\* ends start() through shutdown(), which sits; any other exception is
\* logged and the pass goes on to its recovery
on_cycle_error(l, kind) ==
    IF kind = "KeyboardInterrupt"
    THEN [l EXCEPT !.pc = "ended", !.exit = "interrupt", !.running = FALSE,
                   !.lasted = l.clock - l.cycle_start,
                   !.warned_since = FALSE, !.sat_since = TRUE, !.sits = @ + 1]
    ELSE [l EXCEPT !.pc = "handler", !.failures = @ + 1,
                   !.lasted = l.clock - l.cycle_start,
                   !.warned_since = FALSE, !.sat_since = FALSE]

\* run_cycle returned (robot.py 381-382): last_cycle_time = time.time()
on_cycle_done(l) ==
    [l EXCEPT !.pc = "sleep", !.last_cycle_time = l.clock,
              !.lasted = l.clock - l.cycle_start,
              !.warned_since = FALSE, !.sat_since = FALSE]

\* the recovery of a failed pass (robot.py 387-393): time.sleep(0.5), then
\* hexapod.sit() inside its own try, so that a sit that raises is only logged
recover(l, sit_raises) ==
    [l EXCEPT !.pc = "sleep", !.sits = @ + 1, !.sat_since = TRUE,
              !.clock = @ + RecoveryPause + (IF sit_raises THEN 0 ELSE SitPause)]

\* the rate limiting at the end of a pass (robot.py 395-398)
rate_limit(l) ==
    LET elapsed == l.clock - l.cycle_start
        sleep_time == Max(0, CycleInterval - elapsed)
    IN  [l EXCEPT !.pc = "top", !.clock = @ + sleep_time]

\* `while self.running` found running False: start() ends through shutdown()
leave_loop(l) ==
    [l EXCEPT !.pc = "ended", !.exit = "stopped", !.sits = @ + 1,
              !.sat_since = TRUE]

\* ClankerGUI.send_command (gui.py 132-137): the text goes into the dict
\* that is current_state at that moment; the commands are numbered as typed
send_command(v) ==
    [slot |-> v.typed + 1, typed |-> v.typed + 1, heard |-> Append(v.heard, 0)]

\* update_state (robot.py 171-225) binds current_state to a new dict, in its
\* try branch and in its except branch alike; neither has 'voice_command'
update_state(v) == [v EXCEPT !.slot = 0]

\* think reads current_state.get('voice_command') (brain.py 199, 257, 269)
hear(v) ==
    IF v.slot = 0 THEN v ELSE [v EXCEPT !.heard[v.slot] = @ + 1]

-----------------------------------------------------------------------------
\* the robot, the client, the controller, the single leg and the control
\* loop are not part of the run
PeripheryIdle == RobotIdle /\ ChatIdle /\ HexIdle /\ LegIdle /\ LoopIdle

-----------------------------------------------------------------------------
(* The BehaviorManager on its own: register_behavior and execute_behavior *)

CustomPriorities == {AvoidPriority, AvoidPriority + 1}

\* a reply of the remote service, or the way the request failed
NoRemote == [kind |-> "unused", parsed |-> NonDict]

NoObs ==
    [op |-> "none", state |-> NotADict, prev |-> 0, reselected |-> FALSE,
     executed |-> 0, raised |-> FALSE, result |-> NotRun,
     rate_limited |-> FALSE, path |-> "none", remote |-> NoRemote,
     remote_called |-> FALSE, arbiter_called |-> FALSE, ai_error |-> ""]

\* a brain that is not part of the run
BrainIdle ==
    /\ llm_enabled = FALSE
    /\ has_client = FALSE
    /\ llm_required = FALSE
    /\ last_decision_time = 0
    /\ decisions_made = 0
    /\ behaviors_executed = <<>>
    /\ state_history = <<>>
    /\ memory = <<>>
    /\ now = 0

\* which custom predicates hold and whether a custom execute raises
CustomCases ==
    {<<on, fail>> \in (SUBSET CustomNames) \X BOOLEAN : fail => on # {}}

NavCases == {<<"none", NoNavInfo>>} \cup {<<"set", n>> : n \in NavInfos}

\* the snapshots handed to execute_behavior: every obstacle list without a
\* target, every navigation case with and without a near obstacle, and the
\* custom behaviours against the built-in ones
ArbiterSnapshots ==
    {Snapshot(ob, task, "none", NoNavInfo, Missing, {}, FALSE) :
        ob \in ObstacleLists, task \in {"none", "patrol"}}
      \cup
    {Snapshot(ob, task, nav[1], nav[2], Missing, {}, FALSE) :
        ob \in {<<>>, <<Obstacle(IntV(300), IntV(100))>>},
        task \in {"none", "patrol"}, nav \in NavCases}
      \cup
    {Snapshot(ob, task, nav[1], nav[2], Missing, cu[1], cu[2]) :
        ob \in {<<>>, <<Obstacle(IntV(300), IntV(100))>>},
        task \in {"none", "patrol"},
        nav \in {<<"none", NoNavInfo>>},
        cu \in CustomCases}

ArbiterInit ==
    /\ san_in = NonDict
    /\ san_out = NotRun
    /\ behaviors = DefaultBehaviors
    /\ current_behavior = 0
    /\ ticks = 0
    /\ obs = NoObs
    /\ BrainIdle
    /\ PeripheryIdle

NumCustom == Len(behaviors) - Len(DefaultBehaviors)

\* BehaviorManager.register_behavior with a further behaviour
RegisterBehavior ==
    /\ NumCustom < MaxCustom
    /\ \E p \in CustomPriorities :
         behaviors' = Append(behaviors,
                             Behavior("custom" \o ToString(NumCustom + 1), "custom", p))
    /\ UNCHANGED <<san_in, san_out, current_behavior, ticks, obs, cfgVars, brainVars, hwVars>>

\* one call of BehaviorManager.execute_behavior(st)
ExecuteBehaviorTick ==
    /\ ticks < MaxTicks
    /\ \E st \in ArbiterSnapshots :
         /\ st.custom_on \subseteq {behaviors[i].name : i \in 1..Len(behaviors)}
         /\ LET r == execute_behavior(behaviors, current_behavior, st)
            IN  /\ behaviors' = r.behaviors
                /\ current_behavior' = r.current
                /\ obs' = [NoObs EXCEPT
                             !.op = "execute_behavior", !.state = st,
                             !.prev = current_behavior, !.reselected = r.reselected,
                             !.executed = r.executed, !.raised = r.raised,
                             !.result = r.result, !.arbiter_called = TRUE]
    /\ ticks' = ticks + 1
    /\ UNCHANGED <<san_in, san_out, cfgVars, brainVars, hwVars>>

ArbiterNext == RegisterBehavior \/ ExecuteBehaviorTick

SpecArbiter == ArbiterInit /\ [][ArbiterNext]_vars

-----------------------------------------------------------------------------
(* _sanitize_action on its own *)

SanInit ==
    /\ san_in \in SanInputs
    /\ san_out = NotRun
    /\ behaviors = <<>>
    /\ current_behavior = 0
    /\ ticks = 0
    /\ obs = NoObs
    /\ BrainIdle
    /\ PeripheryIdle

\* one call of _sanitize_action
SanitizeCall ==
    /\ san_out = NotRun
    /\ san_out' = Sanitize(san_in)
    /\ UNCHANGED <<san_in, behaviors, current_behavior, ticks, obs, cfgVars, brainVars, hwVars>>

SanNext == SanitizeCall

SpecSanitize == SanInit /\ [][SanNext]_vars

-----------------------------------------------------------------------------
(* RobotBrain (src/ai/brain.py) *)

\* program constants of RobotBrain; times are in tenths of a second
DecisionInterval == 5
HistoryCapacity == 1000
MemoryCapacity == 500

\* the clock at construction, long after the epoch
EpochStart == 100

\* bound of the model: calls of think
MaxThinks == 2

\* the keys of performance_metrics['behaviors_executed']
Sources ==
    {"error", "llm", "fallback", "unknown"}
      \cup {DefaultBehaviors[i].name : i \in 1..Len(DefaultBehaviors)}
      \cup CustomNames

\* a brain that never rate-limits
should_make_decision_always(t, last) == TRUE

\* RobotBrain._should_make_decision at time t: the test of brain.py 287
should_make_decision(t, last) == ~(t - last < DecisionInterval)

\* a _record_state that never evicts
record_state_unbounded(hist, st, t) == Append(hist, [state |-> st, timestamp |-> t])

\* a _record_state that records nothing
record_state_nothing(hist, st, t) == hist

\* RobotBrain._record_state: the history after the append and the eviction
record_state(hist, st, t) ==
    LET h == Append(hist, [state |-> st, timestamp |-> t])
    IN  IF Len(h) > HistoryCapacity THEN Tail(h) ELSE h

\* bool(x) of a value of the snapshot or of an action
Truthy(x) ==
    CASE x.k \in {"missing", "none"} -> FALSE
      [] x.k \in {"int", "float", "bool"} -> x.v # 0
      [] x.k = "str" -> x.s # ""
      [] x.k = "text" -> x.v > 0
      [] OTHER -> TRUE

\* LongTermMemory.add_interaction
add_interaction(mem, user_input, robot_response) ==
    LET m == Append(mem, [user |-> user_input, robot |-> robot_response])
    IN  IF Len(m) > MemoryCapacity THEN Tail(m) ELSE m

\* a _finalize_decision that counts the decision twice
finalize_decision_twice(counts, mem, hist, action, source) ==
    LET validated == Sanitize(action)
    IN  IF validated.raised
        THEN [counts |-> [counts EXCEPT ![source] = @ + 2], memory |-> mem,
              result |-> Raised]
        ELSE [counts |-> [counts EXCEPT ![source] = @ + 2], memory |-> mem,
              result |-> [validated EXCEPT !.behavior = StrV(source)]]

\* a _finalize_decision that sanitizes the command but keeps no tally
finalize_decision_untallied(counts, mem, hist, action, source) ==
    LET validated == Sanitize(action)
    IN  IF validated.raised
        THEN [counts |-> counts, memory |-> mem, result |-> Raised]
        ELSE [counts |-> counts, memory |-> mem,
              result |-> [validated EXCEPT !.behavior = StrV(source)]]

\* RobotBrain._finalize_decision: the tally, the memory and the command
\* returned (Raised when _sanitize_action raises, after the tally)
finalize_decision(counts, mem, hist, action, source) ==
    LET tallied == [counts EXCEPT ![source] = @ + 1]
        validated == Sanitize(action)
    IN  IF validated.raised
        THEN [counts |-> tallied, memory |-> mem, result |-> Raised]
        ELSE LET user_input ==
                     IF hist # <<>>
                     THEN Get(hist[Len(hist)].state.voice_command, StrV("Akce robota"))
                     ELSE StrV("Neznamy povel")
             IN  [counts |-> tallied,
                  memory |-> IF Truthy(validated.speech)
                             THEN add_interaction(mem, user_input, validated.speech)
                             ELSE mem,
                  result |-> [validated EXCEPT !.behavior = StrV(source)]]

\* RobotBrain._think_with_llm: whether the request was sent, the action (or
\* None) and the _ai_error written into the snapshot
think_with_llm(client, enabled, remote) ==
    IF ~client \/ ~enabled
    THEN [called |-> FALSE, none |-> TRUE, action |-> NonDict, ai_error |-> ""]
    ELSE IF remote.kind = "reply"
    THEN LET action == Sanitize(remote.parsed)
         IN  IF action.raised
             THEN [called |-> TRUE, none |-> TRUE, action |-> NonDict,
                   ai_error |-> "error"]
             ELSE [called |-> TRUE, none |-> FALSE,
                   action |-> [action EXCEPT !.behavior = StrV("llm")],
                   ai_error |-> ""]
    ELSE [called |-> TRUE, none |-> TRUE, action |-> NonDict,
          ai_error |-> IF remote.kind = "rate_limit_error" THEN "RATE_LIMIT" ELSE "error"]

NoKeySpeech == TextV("Omlouvam se, ale nemam nastaveny pristupovy klic", 110)
FallbackSpeech == TextV("Zrovna se mi nedari spojit se svym mozkem", 71)

\* a snapshot dict whose 'obstacles' is None
NoneObstacles ==
    [Snapshot(<<>>, "none", "none", NoNavInfo, Missing, {}, FALSE)
        EXCEPT !.obstacles_none = TRUE]

\* the snapshots handed to think
BrainSnapshots ==
    {NotADict,
     Snapshot(<<>>, "none", "none", NoNavInfo, Missing, {}, FALSE),
     Snapshot(<<>>, "none", "none", NoNavInfo, StrV("ahoj"), {}, FALSE),
     Snapshot(<<>>, "none", "none", NoNavInfo, StrV(""), {}, FALSE),
     Snapshot(<<>>, "patrol", "none", NoNavInfo, Missing, {}, FALSE),
     Snapshot(<<Obstacle(IntV(300), IntV(100))>>, "none", "none", NoNavInfo, Missing, {}, FALSE),
     Snapshot(<<Obstacle(IntV(300), Missing)>>, "none", "none", NoNavInfo, Missing, {}, FALSE),
     NoneObstacles}

\* what the remote attempt of one call gives: chat raises with a message
\* that holds "429" or "Rate limit", chat raises otherwise, or chat returns
\* text that json.loads turns into the value parsed
RemoteOutcomes ==
    {[kind |-> "rate_limit_error", parsed |-> NonDict],
     [kind |-> "error", parsed |-> NonDict],
     [kind |-> "reply", parsed |-> NonDict],
     [kind |-> "reply", parsed |-> Act("stop")],
     [kind |-> "reply", parsed |-> [Act("turn") EXCEPT !.angle = IntV(999)]],
     [kind |-> "reply", parsed |-> [Act("walk_forward") EXCEPT !.steps = StrV("many")]],
     [kind |-> "reply", parsed |-> [Act("wave") EXCEPT !.speech = TextV("hi", TextLimit + 3)]]}

\* the gaps between two calls of think
TimeSteps == {DecisionInterval - 1, DecisionInterval}

\* RobotBrain.__init__: the client exists only when the LLM is enabled in the
\* configuration, and llm_enabled only when the client has a key
Init ==
    /\ san_in = NonDict
    /\ san_out = NotRun
    /\ behaviors = DefaultBehaviors
    /\ current_behavior = 0
    /\ has_client \in BOOLEAN
    /\ llm_enabled \in {e \in BOOLEAN : e => has_client}
    /\ llm_required \in BOOLEAN
    /\ last_decision_time = 0
    /\ decisions_made = 0
    /\ behaviors_executed = [s \in Sources |-> 0]
    /\ state_history = <<>>
    /\ memory = <<>>
    /\ now = EpochStart
    /\ ticks = 0
    /\ obs = NoObs
    /\ PeripheryIdle

\* _think_with_llm builds state_brief before its try block:
\* current_state.get("obstacles", [])[:3] raises TypeError on None, and
\* nothing in think catches it
PromptRaises(st) == has_client /\ llm_enabled /\ st.obstacles_none

\* what a call of think(st) records about itself
ThinkObs(st, remote) ==
    [NoObs EXCEPT !.op = "think", !.state = st, !.remote = remote,
                  !.prev = current_behavior]

\* think returns through _finalize_decision(action, source): the tally, the
\* memory and the command; the manager is not touched
ReturnFinalized(o, action, source, path) ==
    \E f \in {finalize_decision(behaviors_executed, memory, state_history',
                                action, source)} :
        /\ behaviors_executed' = f.counts
        /\ memory' = f.memory
        /\ obs' = [o EXCEPT !.path = path, !.result = f.result]
        /\ UNCHANGED mgrVars

\* RobotBrain._think_locally: execute_behavior, then _finalize_decision under
\* the name of the behaviour that is active after the call; an exception of
\* either is answered by stop
ThinkLocally(o, st) ==
    \E r \in {execute_behavior(behaviors, current_behavior, st)} :
    \E f \in {finalize_decision(behaviors_executed, memory, state_history', r.result,
                                IF r.current # 0 THEN r.behaviors[r.current].name
                                ELSE "unknown")} :
        /\ behaviors' = r.behaviors
        /\ current_behavior' = r.current
        /\ behaviors_executed' = f.counts
        /\ memory' = f.memory
        /\ obs' = [o EXCEPT
              !.path = IF f.result.raised THEN "local_error" ELSE "local",
              !.arbiter_called = TRUE, !.reselected = r.reselected,
              !.executed = r.executed, !.raised = r.raised,
              !.result = IF f.result.raised
                         THEN [Act("stop") EXCEPT !.error = StrV("exception")]
                         ELSE f.result]

\* the branches of think after _record_state (brain.py 254-280)
Decide(st, remote) ==
    IF ~llm_enabled /\ Truthy(st.voice_command)
    THEN ReturnFinalized(ThinkObs(st, remote),
                         [Act("idle") EXCEPT !.speech = NoKeySpeech],
                         "error", "no_key_voice")
    ELSE IF PromptRaises(st)
    THEN /\ obs' = [ThinkObs(st, remote) EXCEPT !.path = "escaped", !.result = Raised]
         /\ UNCHANGED <<behaviors_executed, memory, mgrVars>>
    ELSE
    \E llm \in {think_with_llm(has_client, llm_enabled, remote)} :
    \E o \in {[ThinkObs(st, remote) EXCEPT !.remote_called = llm.called,
                                           !.ai_error = llm.ai_error]} :
        IF ~llm.none
        THEN ReturnFinalized(o, llm.action, "llm", "llm")
        ELSE IF Truthy(st.voice_command)
        THEN ReturnFinalized(o, [Act("idle") EXCEPT !.speech = FallbackSpeech],
                             "fallback", "fallback_voice")
        ELSE IF llm_required
        THEN /\ obs' = [o EXCEPT
                  !.path = "required_stop",
                  !.result = [Act("stop") EXCEPT !.behavior = StrV("llm"),
                                                 !.reason = StrV("llm_unavailable")]]
             /\ UNCHANGED <<behaviors_executed, memory, mgrVars>>
        ELSE ThinkLocally(o, st)

\* one call of RobotBrain.think(st), dt after the previous one; remote is
\* what the service answers if a request is sent
Think ==
    /\ ticks < MaxThinks
    /\ \E st \in BrainSnapshots, dt \in TimeSteps :
       \E remote \in (IF st.valid /\ should_make_decision(now + dt, last_decision_time)
                         /\ has_client /\ llm_enabled /\ ~st.obstacles_none
                      THEN RemoteOutcomes ELSE {NoRemote}) :
         /\ now' = now + dt
         /\ IF ~st.valid
            THEN /\ obs' = [ThinkObs(st, remote) EXCEPT
                      !.path = "invalid",
                      !.result = [Act("stop") EXCEPT !.error = StrV("invalid_state")]]
                 /\ UNCHANGED <<last_decision_time, decisions_made, state_history,
                                behaviors_executed, memory, mgrVars>>
            ELSE IF ~should_make_decision(now', last_decision_time)
            THEN /\ obs' = [ThinkObs(st, remote) EXCEPT
                      !.path = "rate_limited", !.rate_limited = TRUE,
                      !.result = Act("continue")]
                 /\ UNCHANGED <<last_decision_time, decisions_made, state_history,
                                behaviors_executed, memory, mgrVars>>
            ELSE /\ last_decision_time' = now'
                 /\ decisions_made' = decisions_made + 1
                 /\ state_history' = record_state(state_history, st, now')
                 /\ Decide(st, remote)
    /\ ticks' = ticks + 1
    /\ UNCHANGED <<san_in, san_out, cfgVars, hwVars>>

Next == Think

Spec == Init /\ [][Next]_vars

\* The brain after n accepted decisions, DecisionInterval apart, on the
\* snapshot without obstacles, task or voice command, with no remote client:
\* each was answered by explore, which is still active.
EmptySnapshot == Snapshot(<<>>, "none", "none", NoNavInfo, Missing, {}, FALSE)

ExploreIndex == CHOOSE i \in 1..Len(DefaultBehaviors) : DefaultBehaviors[i].name = "explore"

AfterDecisions(n) ==
    /\ san_in = NonDict
    /\ san_out = NotRun
    /\ behaviors = [DefaultBehaviors EXCEPT ![ExploreIndex].success_count = n]
    /\ current_behavior = ExploreIndex
    /\ has_client = FALSE
    /\ llm_enabled = FALSE
    /\ llm_required = FALSE
    /\ now = EpochStart + n * DecisionInterval
    /\ last_decision_time = now
    /\ decisions_made = n
    /\ behaviors_executed = [s \in Sources |-> IF s = "explore" THEN n ELSE 0]
    /\ state_history = [i \in 1..n |->
                          [state |-> EmptySnapshot,
                           timestamp |-> EpochStart + i * DecisionInterval]]
    /\ memory = <<>>
    /\ ticks = 0
    /\ obs = NoObs
    /\ PeripheryIdle

\* a brain whose history is one short of its capacity, or full
LongRunInit ==
    \E n \in {HistoryCapacity - 1, HistoryCapacity} : AfterDecisions(n)

SpecLongRun == LongRunInit /\ [][Next]_vars

-----------------------------------------------------------------------------
(* ClankerRobot.execute_action on its own *)

\* the commands handed to execute_action
ExecActions ==
    {NonDict, EmptyDict}
      \cup {Act(tag) : tag \in {"stand", "sit", "stop", "idle", "continue",
                                "crab_walk", "dance", "fist_bump", "follow_person"}}
      \cup {[Act("walk_forward") EXCEPT !.steps = s, !.speed = v] :
              s \in {Missing, NoneV, StrV("many"), BoolV(TRUE), IntV(0), IntV(1),
                     IntV(8), IntV(11), FloatV(50), FloatV(250)},
              v \in {Missing, FloatV(50), FloatV(1), StrV("fast")}}
      \cup {[Act("turn") EXCEPT !.angle = a, !.steps = s] :
              a \in {Missing, NoneV, StrV("left"), IntV(-45), IntV(45), IntV(-20),
                     IntV(30), IntV(999), FloatV(-4550), FloatV(18000)},
              s \in {Missing, IntV(2)}}
      \cup {[Act("wave") EXCEPT !.leg_id = l] :
              l \in {Missing, IntV(-1), IntV(3), IntV(9), FloatV(250), StrV("x")}}

\* the headings the robot has when the command arrives
ExecHeadings == {0, 35000}

ExecInit ==
    /\ exec_in \in {ExecIn(a, o) : a \in ExecActions, o \in BOOLEAN}
    /\ exec_out = NotExecuted
    /\ heading \in ExecHeadings
    /\ san_in = NonDict
    /\ san_out = NotRun
    /\ behaviors = <<>>
    /\ current_behavior = 0
    /\ ticks = 0
    /\ obs = NoObs
    /\ BrainIdle
    /\ ChatIdle
    /\ HexIdle
    /\ LegIdle
    /\ LoopIdle

\* one call of execute_action
ExecuteAction ==
    /\ ~exec_out.done
    /\ \E r \in {execute_action(exec_in.action, exec_in.obstacles, heading)} :
         /\ exec_out' = [call |-> r.call, heading |-> r.heading,
                         escaped |-> r.escaped, done |-> TRUE]
         /\ heading' = r.heading
    /\ UNCHANGED <<exec_in, chat, hexVars, sanVars, mgrVars, cfgVars, brainVars, ticks, obs,
                   legVars, loopVars>>

ExecNext == ExecuteAction

SpecExecute == ExecInit /\ [][ExecNext]_vars

-----------------------------------------------------------------------------
(* OpenRouterClient.chat on its own *)

\* the client is constructed with or without an API key
ChatInit ==
    /\ chat \in {[ChatIdleState EXCEPT !.api_key = k] : k \in BOOLEAN}
    /\ RobotIdle
    /\ HexIdle
    /\ LegIdle
    /\ LoopIdle
    /\ san_in = NonDict
    /\ san_out = NotRun
    /\ behaviors = <<>>
    /\ current_behavior = 0
    /\ ticks = 0
    /\ obs = NoObs
    /\ BrainIdle

ChatFrame ==
    UNCHANGED <<robotVars, hexVars, sanVars, mgrVars, cfgVars, brainVars, ticks, obs,
                legVars, loopVars>>

ChatNext ==
    \/ ChatBegin /\ ChatFrame
    \/ ChatRequest /\ ChatFrame

SpecChat == ChatInit /\ [][ChatNext]_vars

-----------------------------------------------------------------------------
(* The gaits of HexapodController, called one after the other *)

\* bounds of the model: gait calls and the steps of one call
MaxGaits == 2
MaxGaitSteps == 2

\* the gait calls: walk_forward(steps), turn(angle, steps), crab_walk(steps, direction)
GaitCalls ==
    {HexCall("walk_forward", n, DefaultSpeed, 0, 0, "") : n \in 1..MaxGaitSteps}
      \cup {HexCall("turn", n, DefaultSpeed, a, 0, "") :
              n \in 1..MaxGaitSteps, a \in {-4500, 4500}}
      \cup {HexCall("crab_walk", n, DefaultSpeed, 0, 0, d) :
              n \in 1..MaxGaitSteps, d \in {"left", "right"}}

\* the gestures: wave_leg(leg_id), with leg ids on both sides of 0..5
GestureCalls == {HexCall("wave_leg", 0, 0, 0, l, "") : l \in -1..6}

\* the standing pose, with nothing else running
GaitInit ==
    /\ HexIdle
    /\ RobotIdle
    /\ ChatIdle
    /\ LegIdle
    /\ LoopIdle
    /\ san_in = NonDict
    /\ san_out = NotRun
    /\ behaviors = <<>>
    /\ current_behavior = 0
    /\ ticks = 0
    /\ obs = NoObs
    /\ BrainIdle

HexFrame ==
    UNCHANGED <<robotVars, chat, sanVars, mgrVars, cfgVars, brainVars, obs,
                legVars, loopVars>>

\* a gait method or a gesture is called
GaitStart ==
    /\ ticks < MaxGaits
    /\ \E call \in GaitCalls \cup GestureCalls : HexEnter("loop", call)
    /\ ticks' = ticks + 1
    /\ HexFrame

GaitMove == HexMove("loop") /\ UNCHANGED ticks /\ HexFrame

GaitReturn == HexReturn("loop") /\ UNCHANGED ticks /\ HexFrame

GaitNext == GaitStart \/ GaitMove \/ GaitReturn

SpecGait == GaitInit /\ [][GaitNext]_vars

-----------------------------------------------------------------------------
(* The control loop and the GUI, both calling execute_action *)

\* bound of the model: commands handed to execute_action by the two threads
MaxCommands == 2

\* the buttons of the GUI (gui.py 89-93)
QuickActions == {"stand", "sit", "dance", "fist_bump", "follow_person", "stop"}

\* commands think hands to the control loop
LoopActions ==
    {Walk(1), Turn(45, 2), Turn(-45, 2), Act("stop"), Act("continue"), Act("stand")}

\* execute_action(action) as called by thread th: the heading is written and
\* the thread enters the controller method, if the command has one
CallExecuteAction(th, action) ==
    \E obstacles \in BOOLEAN :
    \E r \in {execute_action(action, obstacles, heading)} :
        /\ exec_in' = ExecIn(action, obstacles)
        /\ exec_out' = [call |-> r.call, heading |-> r.heading,
                        escaped |-> r.escaped, done |-> TRUE]
        /\ heading' = r.heading
        /\ HexEnter(th, r.call)

ThreadsFrame ==
    UNCHANGED <<chat, sanVars, mgrVars, cfgVars, brainVars, obs, legVars, loopVars>>

\* ClankerRobot.run_cycle in the control-loop thread, once its previous
\* cycle is over: the command of think goes to execute_action
RunCycle ==
    /\ ticks < MaxCommands
    /\ motion["loop"] = Outside
    /\ \E action \in LoopActions : CallExecuteAction("loop", action)
    /\ ticks' = ticks + 1
    /\ ThreadsFrame

\* ClankerGUI.execute_quick_action in the Tk thread, once its previous
\* handler is over
QuickAction ==
    /\ ticks < MaxCommands
    /\ motion["gui"] = Outside
    /\ \E name \in QuickActions : CallExecuteAction("gui", Act(name))
    /\ ticks' = ticks + 1
    /\ ThreadsFrame

ThreadMove ==
    /\ \E th \in Threads : HexMove(th)
    /\ UNCHANGED <<robotVars, ticks>>
    /\ ThreadsFrame

ThreadReturn ==
    /\ \E th \in Threads : HexReturn(th)
    /\ UNCHANGED <<robotVars, ticks>>
    /\ ThreadsFrame

\* toggle_robot has started the control loop and stand() is over
ThreadsInit == GaitInit

ThreadsNext == RunCycle \/ QuickAction \/ ThreadMove \/ ThreadReturn

SpecThreads == ThreadsInit /\ [][ThreadsNext]_vars

-----------------------------------------------------------------------------
(* Leg.move_to on its own *)

\* the legs and the targets of move_to, in mm: the anchors and the poses of
\* the gaits, targets out of reach, and targets at the end of the coxa
LegTargets ==
    {LegIn(l, x, y, z) : l \in {0, 5}, x \in {-40, 0, 18, 30, 40, 70, 200},
                         y \in {-30, 0, 24, 30}, z \in {-80, -50, -30, 0, 20}}

LegInit ==
    /\ leg_in \in LegTargets
    /\ leg_out = NotMoved
    /\ LoopIdle
    /\ RobotIdle
    /\ ChatIdle
    /\ HexIdle
    /\ san_in = NonDict
    /\ san_out = NotRun
    /\ behaviors = <<>>
    /\ current_behavior = 0
    /\ ticks = 0
    /\ obs = NoObs
    /\ BrainIdle

\* one call of move_to
MoveTo ==
    /\ ~leg_out.done
    /\ leg_out' = move_to(leg_out, leg_in.leg_id, leg_in.x, leg_in.y, leg_in.z)
    /\ UNCHANGED <<leg_in, loopVars, robotVars, chat, hexVars, sanVars, mgrVars,
                   cfgVars, brainVars, ticks, obs>>

LegNext == MoveTo

SpecLeg == LegInit /\ [][LegNext]_vars

-----------------------------------------------------------------------------
(* ClankerRobot.start with the GUI beside it *)

\* bounds of the model: passes of the loop and commands typed into the GUI
MaxCycles == 2
MaxVoice == 2

\* the time think and execute_action take: a tenth of a second, or three
\* seconds (a slow reply of the network, a long gait)
StepTimes == {1, 30}

\* how a step of run_cycle ends
Outcomes == {"ok", "Exception", "KeyboardInterrupt"}

\* start() has stood the robot up and reached its loop
LoopInit ==
    /\ loop = [LoopIdleState EXCEPT !.pc = "top", !.running = TRUE]
    /\ gui_voice = VoiceIdle
    /\ LegIdle
    /\ RobotIdle
    /\ ChatIdle
    /\ HexIdle
    /\ san_in = NonDict
    /\ san_out = NotRun
    /\ behaviors = <<>>
    /\ current_behavior = 0
    /\ ticks = 0
    /\ obs = NoObs
    /\ BrainIdle

LoopFrame ==
    UNCHANGED <<robotVars, chat, hexVars, legVars, sanVars, mgrVars, cfgVars,
                brainVars, ticks, obs>>

\* the test of `while self.running` and, when it holds, the watchdog check
WhileRunning ==
    /\ loop.pc = "top"
    /\ IF loop.running
       THEN loop.cycles < MaxCycles /\ loop' = WatchdogCheck(loop)
       ELSE loop' = leave_loop(loop)
    /\ UNCHANGED gui_voice
    /\ LoopFrame

\* run_cycle: self.update_state()
CycleUpdateState ==
    /\ loop.pc = "update"
    /\ loop' = [loop EXCEPT !.pc = "think"]
    /\ gui_voice' = update_state(gui_voice)
    /\ LoopFrame

\* run_cycle: action = self.brain.think(self.current_state)
CycleThink ==
    /\ loop.pc = "think"
    /\ \E dt \in StepTimes, outcome \in Outcomes :
       \E l \in {[loop EXCEPT !.clock = @ + dt]} :
         loop' = IF outcome = "ok" THEN [l EXCEPT !.pc = "execute"]
                 ELSE on_cycle_error(l, outcome)
    /\ gui_voice' = hear(gui_voice)
    /\ LoopFrame

\* run_cycle: self.execute_action(action), then the display and learn
CycleExecute ==
    /\ loop.pc = "execute"
    /\ \E dt \in StepTimes, outcome \in Outcomes :
       \E l \in {[loop EXCEPT !.clock = @ + dt, !.executions = @ + 1]} :
         loop' = IF outcome = "ok" THEN on_cycle_done(l)
                 ELSE on_cycle_error(l, outcome)
    /\ UNCHANGED gui_voice
    /\ LoopFrame

\* except Exception: the pause and the recovery sit
CycleRecover ==
    /\ loop.pc = "handler"
    /\ \E sit_raises \in BOOLEAN : loop' = recover(loop, sit_raises)
    /\ UNCHANGED gui_voice
    /\ LoopFrame

\* the sleep that ends the pass
CycleSleep ==
    /\ loop.pc = "sleep"
    /\ loop' = rate_limit(loop)
    /\ UNCHANGED gui_voice
    /\ LoopFrame

\* the Tk thread: a command is typed and sent while the loop runs
SendCommand ==
    /\ loop.pc \notin {"idle", "ended"}
    /\ gui_voice.typed < MaxVoice
    /\ gui_voice' = send_command(gui_voice)
    /\ UNCHANGED loop
    /\ LoopFrame

\* the Tk thread: toggle_robot while the engine runs sets running to False
StopEngine ==
    /\ loop.running
    /\ loop.pc # "ended"
    /\ loop' = [loop EXCEPT !.running = FALSE]
    /\ UNCHANGED gui_voice
    /\ LoopFrame

LoopNext ==
    \/ WhileRunning
    \/ CycleUpdateState
    \/ CycleThink
    \/ CycleExecute
    \/ CycleRecover
    \/ CycleSleep
    \/ SendCommand
    \/ StopEngine

SpecLoop == LoopInit /\ [][LoopNext]_vars

-----------------------------------------------------------------------------
(* NavigateToTargetBehavior.execute on its own *)

\* bearings of calculate_bearing and headings of the robot, both in [0, 360),
\* and distances on both sides of the arrival tolerance
NavBearings == {0, 5, 90, 180, 270, 350}
NavHeadings == {0, 80, 180, 350}
NavDistances == {NoneV, IntV(4), IntV(5), IntV(10)}

\* the snapshots handed to execute: a target with its navigation info, or
\* a target without navigation info
NavSnapshots ==
    {[Snapshot(<<>>, "none", "set", NavInfo(IntV(b), d), Missing, {}, FALSE)
        EXCEPT !.heading = h] :
        b \in NavBearings, h \in NavHeadings, d \in NavDistances}
      \cup {Snapshot(<<>>, "none", "set", NoNavInfo, Missing, {}, FALSE)}

NavInit ==
    /\ obs \in {[NoObs EXCEPT !.state = st] : st \in NavSnapshots}
    /\ ticks = 0
    /\ san_in = NonDict
    /\ san_out = NotRun
    /\ behaviors = DefaultBehaviors
    /\ current_behavior = 0
    /\ BrainIdle
    /\ PeripheryIdle

\* one call of NavigateToTargetBehavior.execute(state)
NavigateCall ==
    /\ ticks = 0
    /\ obs' = [obs EXCEPT !.op = "navigate", !.executed = 2,
                          !.result = NavigateExecute(obs.state)]
    /\ ticks' = 1
    /\ UNCHANGED <<san_in, san_out, behaviors, current_behavior, cfgVars,
                   brainVars, hwVars>>

NavNext == NavigateCall

SpecNavigate == NavInit /\ [][NavNext]_vars

-----------------------------------------------------------------------------
(* Claims about RobotBrain.think, checked under Spec *)

Thought == obs.op = "think"

RemoteFailedOrUnavailable ==
    \/ ~has_client
    \/ ~llm_enabled
    \/ obs.remote.kind \in {"rate_limit_error", "error"}
    \/ (obs.remote.kind = "reply" /\ Sanitize(obs.remote.parsed).raised)

\* C2: in every tick that is not rate-limited, with llm_required set and the
\* remote attempt failed or unavailable, think returns stop and does not
\* call execute_behavior, whatever the snapshot (voice_command included).
C2_RequiredFailSafe ==
    (/\ Thought
     /\ obs.state.valid
     /\ ~obs.rate_limited
     /\ llm_required
     /\ RemoteFailedOrUnavailable)
        => /\ StrOf(obs.result.action) = "stop"
           /\ ~obs.arbiter_called

-----------------------------------------------------------------------------
(* Claims about the BehaviorManager, checked under SpecArbiter *)

ArbiterTicked == obs.op = "execute_behavior"

\* some obstacle of the snapshot is closer than the proximity threshold
ObstacleWithinRange(st) ==
    \E i \in 1..Len(st.obstacles) :
        st.obstacles[i].distance.k = "int" /\ st.obstacles[i].distance.v < 500

ExploreHolds(st) == st.current_task = "none"

NameOf(i) == IF i = 0 THEN "None" ELSE behaviors[i].name

\* indices of the registered behaviours whose predicate holds on st
Holding(st) == {i \in 1..Len(behaviors) : ShouldActivate(behaviors[i], st)}

\* C3 as stated: in every tick, after any earlier ticks, a snapshot with an
\* obstacle within range on which explore's predicate holds too has
\* avoid_obstacle executed (here with the built-in behaviours alone).
C3_AvoidWins_Original ==
    (/\ ArbiterTicked
     /\ Len(behaviors) = Len(DefaultBehaviors)
     /\ ObstacleWithinRange(obs.state)
     /\ ExploreHolds(obs.state))
        => NameOf(obs.executed) = "avoid_obstacle"

\* C3 amended: in a tick whose snapshot has an obstacle within range and on
\* which explore's predicate holds, avoid_obstacle is the behaviour executed
\* (and active during the tick), unless another behaviour was active at the
\* start of the tick and its predicate holds on the snapshot (it is kept),
\* or a registered behaviour of a priority above 9 has its predicate holding.
C3_AvoidWins ==
    (/\ ArbiterTicked
     /\ ObstacleWithinRange(obs.state)
     /\ ExploreHolds(obs.state)
     /\ ~(obs.prev # 0 /\ NameOf(obs.prev) # "avoid_obstacle"
            /\ obs.prev \in Holding(obs.state))
     /\ \A i \in Holding(obs.state) : behaviors[i].priority <= 9)
        => /\ NameOf(obs.executed) = "avoid_obstacle"
           /\ ~obs.raised => NameOf(current_behavior) = "avoid_obstacle"

\* navigate_to_target was active, its target went away, and avoid_obstacle
\* won the re-selection over explore
C3_Witness ==
    /\ ArbiterTicked
    /\ ObstacleWithinRange(obs.state) /\ ExploreHolds(obs.state)
    /\ NameOf(obs.prev) = "navigate_to_target"
    /\ NameOf(obs.executed) = "avoid_obstacle"
    /\ NameOf(current_behavior) = "avoid_obstacle"

\* C4: a behaviour that is active at the start of a tick and whose predicate
\* holds on the snapshot is kept: no re-selection, it is the one executed,
\* and it is still active afterwards unless its execution raised; hence two
\* consecutive ticks on the same snapshot execute the same behaviour when
\* the first one executed a behaviour without raising.
C4_Sticky ==
    /\ [](ArbiterTicked /\ obs.prev # 0 /\ obs.prev \in Holding(obs.state)
            => /\ ~obs.reselected
               /\ obs.executed = obs.prev
               /\ ~Execute(behaviors[obs.prev], obs.state).raised
                     => current_behavior = obs.prev)
    /\ [][(/\ ArbiterTicked /\ ArbiterTicked'
           /\ ticks' = ticks + 1
           /\ obs'.state = obs.state
           /\ obs.executed # 0 /\ ~obs.raised)
              => obs'.executed = obs.executed]_vars

\* explore was kept on a snapshot on which a selection would have chosen
\* avoid_obstacle
C4_Witness ==
    /\ ArbiterTicked
    /\ NameOf(obs.prev) = "explore"
    /\ obs.executed = obs.prev
    /\ current_behavior = obs.prev
    /\ ObstacleWithinRange(obs.state)
    /\ ~obs.reselected

\* the first registered of the holding behaviours of the highest priority
BestOf(st) ==
    CHOOSE i \in Holding(st) :
        \A j \in Holding(st) :
            \/ behaviors[i].priority > behaviors[j].priority
            \/ (behaviors[i].priority = behaviors[j].priority /\ i <= j)

\* C5: a tick re-selects exactly when no behaviour is active or the active
\* one's predicate is false; it then chooses the behaviour of the highest
\* priority among those whose predicate holds, the earliest registered among
\* equals; when no predicate holds it returns idle and no behaviour is active.
C5_Selection ==
    ArbiterTicked =>
      /\ obs.reselected <=> (obs.prev = 0 \/ obs.prev \notin Holding(obs.state))
      /\ obs.reselected =>
           IF Holding(obs.state) = {}
           THEN /\ obs.result = Act("idle")
                /\ obs.executed = 0
                /\ current_behavior = 0
           ELSE obs.executed = BestOf(obs.state)

\* a re-selection between two holding behaviours of the same priority 9, the
\* first registered of which was chosen
C5_Witness ==
    /\ ArbiterTicked /\ obs.reselected
    /\ \E i, j \in Holding(obs.state) :
          i < j /\ behaviors[i].priority = behaviors[j].priority
            /\ obs.executed = i
    /\ \A j \in Holding(obs.state) : behaviors[j].priority <= behaviors[obs.executed].priority

\* the counters of bs with one counter of behaviour e raised by one
Bumped(bs, e, counter) ==
    IF counter = "success" THEN [bs EXCEPT ![e].success_count = @ + 1]
    ELSE [bs EXCEPT ![e].failure_count = @ + 1]

\* C6: a tick whose behaviour executes normally raises exactly that
\* behaviour's success_count by one; a tick whose behaviour raises raises
\* exactly its failure_count by one, clears current_behavior and returns
\* stop; no other counter changes, and no counter ever decreases.
C6_Accounting ==
    [][/\ (ArbiterTicked' /\ ticks' = ticks + 1) =>
            LET e == obs'.executed IN
            IF e = 0 THEN behaviors' = behaviors
            ELSE IF Execute(behaviors[e], obs'.state).raised
            THEN /\ behaviors' = Bumped(behaviors, e, "failure")
                 /\ current_behavior' = 0
                 /\ obs'.result = Act("stop")
            ELSE /\ behaviors' = Bumped(behaviors, e, "success")
                 /\ current_behavior' = e
       /\ \A i \in 1..Len(behaviors) :
            /\ behaviors'[i].success_count >= behaviors[i].success_count
            /\ behaviors'[i].failure_count >= behaviors[i].failure_count]_vars

\* a behaviour raised after another tick had succeeded
C6_Witness ==
    /\ ArbiterTicked /\ obs.raised
    /\ current_behavior = 0
    /\ behaviors[obs.executed].failure_count = 1
    /\ \E i \in 1..Len(behaviors) : behaviors[i].success_count > 0

-----------------------------------------------------------------------------
(* Claims about _sanitize_action, checked under SpecSanitize *)

SanDone == san_out # NotRun

\* the twelve ActionCommand variants of the specification
ActionCommandTags ==
    {"walk_forward", "turn", "crab_walk", "stand", "sit", "wave", "fist_bump",
     "dance", "follow_person", "stop", "idle", "continue"}

StopUnknown == [Act("stop") EXCEPT !.reason = StrV("unknown_action")]

\* the input is a dict that carries an action tag
HasTag(d) == d.isdict /\ d.action.k # "missing"

\* C7 as stated: every input whose tag is not one of the twelve variants is
\* answered by {action: stop, reason: unknown_action}, and the tag of every
\* sanitized output is one of the twelve variants.
C7_TagClosure_Original ==
    SanDone =>
      /\ (HasTag(san_in) /\ StrOf(san_in.action) \notin ActionCommandTags)
            => san_out = StopUnknown
      /\ ~san_out.raised => StrOf(san_out.action) \in ActionCommandTags

\* C7 amended: every input dict whose tag is neither one of the twelve
\* variants nor create_behavior is answered by exactly
\* {action: stop, reason: unknown_action}; the tag of every output that
\* _sanitize_action returns is one of the twelve variants or create_behavior.
C7_TagClosure ==
    SanDone =>
      /\ (HasTag(san_in)
            /\ StrOf(san_in.action) \notin (ActionCommandTags \cup {"create_behavior"}))
            => san_out = StopUnknown
      /\ ~san_out.raised =>
            StrOf(san_out.action) \in (ActionCommandTags \cup {"create_behavior"})

\* an unknown tag was answered, and a create_behavior command passed through
C7_Witness ==
    /\ SanDone
    /\ HasTag(san_in)
    /\ StrOf(san_in.action) = "bogus"
    /\ san_out = StopUnknown

\* the mathematical clamp of x into [lo, hi]
Clamp(x, lo, hi) == IF x < lo THEN lo ELSE IF x > hi THEN hi ELSE x

\* an integer-valued number: an int, or a float without fractional part
IntValued(x) == x.k = "int" \/ (x.k = "float" /\ x.v % 100 = 0)
IntValueOf(x) == IF x.k = "int" THEN x.v ELSE x.v \div 100
IntOrMissing(x) == x.k = "missing" \/ IntValued(x)

\* C8: for integer-valued steps, speed, angle and leg_id the output carries
\* steps clamped to [1,10], speed to [0.05,1.0], angle to [-180,180] and
\* leg_id to [0,5] (floats in hundredths).
C8_NumericClamps ==
    SanDone /\ HasTag(san_in) =>
      LET a == StrOf(san_in.action) IN
      /\ (a = "walk_forward" /\ IntOrMissing(san_in.steps) /\ IntOrMissing(san_in.speed)) =>
            /\ ~san_out.raised
            /\ IntValued(san_in.steps) =>
                 san_out.steps = IntV(Clamp(IntValueOf(san_in.steps), 1, 10))
            /\ IntValued(san_in.speed) =>
                 san_out.speed = FloatV(Clamp(100 * IntValueOf(san_in.speed), 5, 100))
      /\ (a = "turn" /\ IntOrMissing(san_in.steps) /\ IntOrMissing(san_in.angle)) =>
            /\ ~san_out.raised
            /\ IntValued(san_in.angle) =>
                 san_out.angle = FloatV(Clamp(100 * IntValueOf(san_in.angle), -18000, 18000))
            /\ IntValued(san_in.steps) =>
                 san_out.steps = IntV(Clamp(IntValueOf(san_in.steps), 1, 10))
      /\ (a = "wave" /\ IntValued(san_in.leg_id)) =>
            /\ ~san_out.raised
            /\ san_out.leg_id = IntV(Clamp(IntValueOf(san_in.leg_id), 0, 5))
      /\ (a = "crab_walk" /\ IntValued(san_in.steps)) =>
            /\ ~san_out.raised
            /\ san_out.steps = IntV(Clamp(IntValueOf(san_in.steps), 1, 10))

\* turn with angle 999 was sanitized to 180
C8_Witness ==
    /\ san_in = [Act("turn") EXCEPT !.angle = IntV(999), !.steps = IntV(11)]
    /\ san_out.angle = FloatV(18000)
    /\ san_out.steps = IntV(10)

\* C9: the output direction of crab_walk is left or right, and it is right
\* only when the input direction is the string right; every other input
\* value yields left.
C9_CrabDirection ==
    (SanDone /\ HasTag(san_in) /\ StrOf(san_in.action) = "crab_walk" /\ ~san_out.raised) =>
      /\ san_out.direction \in {StrV("left"), StrV("right")}
      /\ san_out.direction = StrV("right") <=> san_in.direction = StrV("right")

\* C10: _sanitize_action returns a command for every input and never raises.
C10_NeverRaises == SanDone => ~san_out.raised

-----------------------------------------------------------------------------
(* Further claims about the behaviours, checked under SpecArbiter *)

\* the obstacles of st closer than the proximity threshold
NearObstacles(st) ==
    {i \in 1..Len(st.obstacles) :
        /\ st.obstacles[i].distance.k = "int"
        /\ st.obstacles[i].distance.v < ProximityThreshold}

\* C12: whenever avoid_obstacle executes (without raising), its command is a
\* turn away from an obstacle that is closer than the proximity threshold:
\* a negative angle when that obstacle's x is left of frame_width / 2, a
\* positive angle otherwise, also on snapshots with several obstacles.
C12_AvoidDirection ==
    (/\ ArbiterTicked
     /\ NameOf(obs.executed) = "avoid_obstacle"
     /\ ~obs.raised)
        => \E i \in NearObstacles(obs.state) :
             LET x == obs.state.obstacles[i].x
             IN  /\ StrOf(obs.result.action) = "turn"
                 /\ x.k = "int"
                 /\ IF 2 * x.v < obs.state.frame_width
                    THEN obs.result.angle.v < 0
                    ELSE obs.result.angle.v > 0

-----------------------------------------------------------------------------
(* Further claims about RobotBrain.think, checked under Spec *)

\* the call sent a request and the reply was turned into a command
RemoteSucceeded ==
    /\ obs.remote_called
    /\ obs.remote.kind = "reply"
    /\ ~Sanitize(obs.remote.parsed).raised

\* C13: in a tick that is not rate-limited, in which the configured remote
\* client was asked and its reply was turned into a command, think returns
\* the sanitized form of that command with behavior 'llm', the tally of
\* 'llm' grows by one (and no other), and the BehaviorManager is neither
\* consulted nor changed.
C13_RemoteSuccess ==
    [][(/\ Thought'
        /\ ticks' = ticks + 1
        /\ ~obs'.rate_limited
        /\ RemoteSucceeded')
          => /\ obs'.result = [Sanitize(obs'.remote.parsed) EXCEPT !.behavior = StrV("llm")]
             /\ behaviors_executed' = [behaviors_executed EXCEPT !["llm"] = @ + 1]
             /\ ~obs'.arbiter_called
             /\ obs'.executed = 0
             /\ UNCHANGED <<behaviors, current_behavior>>]_vars

\* the reply {"action": "turn", "angle": 999} came back as turn 180 from 'llm'
C13_Witness ==
    /\ Thought
    /\ RemoteSucceeded
    /\ StrOf(obs.remote.parsed.action) = "turn"
    /\ obs.remote.parsed.angle = IntV(999)
    /\ obs.result.angle = FloatV(MaxAngle * 100)
    /\ obs.result.behavior = StrV("llm")
    /\ behaviors_executed["llm"] = 1
    /\ ~obs.arbiter_called

\* C14: every call of think, whatever its input, returns a command whose
\* action tag is in the allowed set, and no exception escapes.
C14_TickTotality ==
    Thought => /\ ~obs.result.raised
               /\ obs.result.isdict
               /\ StrOf(obs.result.action) \in allowed_actions

\* the call recorded its snapshot: it got past the state test and the rate limit
Recorded == Thought /\ obs.state.valid /\ ~obs.rate_limited

\* the entry _record_state appends in this step
NewEntry == [state |-> obs'.state, timestamp |-> now']

\* C15: state_history never holds more than 1000 entries; a snapshot
\* appended to a full buffer evicts exactly the oldest entry, and to a buffer
\* that is not full evicts nothing; the entries are in arrival order
\* (strictly increasing timestamps, the newest last).
C15_RingBuffer ==
    /\ [](/\ Len(state_history) <= HistoryCapacity
          /\ \A i \in 1..(Len(state_history) - 1) :
                state_history[i].timestamp < state_history[i + 1].timestamp)
    /\ [][(Recorded' /\ ticks' = ticks + 1)
            => state_history' =
                 IF Len(state_history) = HistoryCapacity
                 THEN Append(Tail(state_history), NewEntry)
                 ELSE Append(state_history, NewEntry)]_vars

\* a snapshot was appended to a full buffer: the entry of the first decision
\* is gone, the buffer is still full and ends with the new snapshot
C15_Witness ==
    /\ Recorded
    /\ decisions_made = HistoryCapacity + 1
    /\ Len(state_history) = HistoryCapacity
    /\ state_history[1].timestamp = EpochStart + 2 * DecisionInterval
    /\ state_history[HistoryCapacity].timestamp = now
    /\ state_history[HistoryCapacity].state = obs.state

\* C16 as stated: every call of think adds one to decisions_made and appends
\* one snapshot to state_history.
C16_Bookkeeping_Original ==
    [][(Thought' /\ ticks' = ticks + 1)
         => /\ decisions_made' = decisions_made + 1
            /\ state_history' = Append(state_history, NewEntry)]_vars

\* C16 amended: a call of think with a dict snapshot that is not rate-limited
\* adds exactly one to decisions_made and appends exactly one snapshot (the
\* one it was given, stamped with the time of the call) to state_history;
\* every other call leaves both as they were.
C16_Bookkeeping ==
    [][(Thought' /\ ticks' = ticks + 1)
         => IF Recorded'
            THEN /\ decisions_made' = decisions_made + 1
                 /\ state_history' = Append(state_history, NewEntry)
            ELSE UNCHANGED <<decisions_made, state_history>>]_vars

\* an accepted decision, then a call 0.4 s later that was not counted
C16_Witness ==
    /\ Thought
    /\ obs.rate_limited
    /\ decisions_made = 1
    /\ Len(state_history) = 1
    /\ ticks = 2

-----------------------------------------------------------------------------
(* Claims about execute_action, checked under SpecExecute *)

Executed == exec_out.done

\* the command has the tag and a number (or nothing) under the key
Carries(action, tag, field, default) ==
    /\ action.isdict
    /\ action.action = StrV(tag)
    /\ IsNumber(Get(field, default))

\* C11: while the snapshot reports an obstacle, a walk_forward command
\* reaches HexapodController.walk_forward with steps at most 1 and a turn
\* command reaches HexapodController.turn with an angle of magnitude at most
\* 30, whatever number the command carried.
C11_ObstacleRestriction ==
    (Executed /\ exec_in.obstacles)
        => /\ exec_out.call.op = "walk_forward"
                => exec_out.call.steps <= RestrictedSteps
           /\ exec_out.call.op = "turn"
                => Abs(exec_out.call.angle) <= RestrictedAngle * 100
           /\ Carries(exec_in.action, "walk_forward", exec_in.action.steps, IntV(1))
                => exec_out.call.op = "walk_forward"
           /\ Carries(exec_in.action, "turn", exec_in.action.angle, IntV(0))
                => exec_out.call.op = "turn"

\* walk_forward with steps 8 before an obstacle reached the controller as
\* walk_forward(steps=1)
C11_Witness ==
    /\ Executed
    /\ exec_in.obstacles
    /\ exec_in.action.action = StrV("walk_forward")
    /\ exec_in.action.steps = IntV(8)
    /\ exec_out.call.op = "walk_forward"
    /\ exec_out.call.steps = 1

-----------------------------------------------------------------------------
(* Claims about OpenRouterClient.chat, checked under SpecChat *)

\* this step sends a request
Sends == chat'.sent = chat.sent + 1

\* C17 as stated: once a model has answered 404 or 429 in a call of chat, no
\* further request is sent in that call, neither to that model nor to a
\* later one.
C17_AbortOnDefinitive_Original ==
    [][Sends => chat.definitive = {}]_vars

\* C17 amended: a model that answers 404 or 429 is not asked again in that
\* call of chat; the next request of the call goes, as a first attempt, to
\* the next model of the list, and the call ends (raising) only when that
\* model was the last of the list.
C17_AbortOnDefinitive ==
    [][/\ Sends => chat'.last.model \notin chat.definitive
       /\ (Sends /\ chat.last.call = chat.calls
                 /\ chat.last.status \in {"http429", "http404"})
            => /\ chat'.last.model = chat.last.model + 1
               /\ chat'.last.attempt = 0
       /\ (Sends /\ chat'.last.status \in {"http429", "http404"})
            => (chat'.active <=> chat'.last.model < Len(all_models))]_vars

\* the first model answered 404 or 429 and the request after it went to the
\* second model, as its first attempt
C17_Witness ==
    /\ chat.definitive = {1}
    /\ chat.last = Request(chat.calls, 2, 0, "error")
    /\ chat.sent = 2

\* C18: a model that has answered 404 in some call of chat is not sent a
\* request in any later call of the same client.
C18_PermanentSkip ==
    [][Sends => all_models[chat'.last.model] \notin chat.not_found]_vars

-----------------------------------------------------------------------------
(* Claims about the gaits, checked under SpecGait *)

\* every leg of the group is commanded at stance height
Grounded(group) == \A i \in 1..Len(group) : legs[group[i]].z = StanceHeight

\* C19: from the standing pose, after every leg move of walk_forward, turn
\* and crab_walk, one of the tripod groups {0,3,4} and {1,2,5} has its three
\* legs at stance height.
C19_TripodSupport == Grounded(tripod1) \/ Grounded(tripod2)

\* in the last step of a gait of several steps, tripod2 is in the air and
\* tripod1 carries
C19_Witness ==
    /\ motion["loop"].call.op \in {"walk_forward", "turn", "crab_walk"}
    /\ motion["loop"].call.steps = MaxGaitSteps
    /\ Len(motion["loop"].moves) < Len(Moves(motion["loop"].call)) \div MaxGaitSteps
    /\ \A i \in 1..Len(tripod2) : legs[tripod2[i]].z = LiftHeight
    /\ Grounded(tripod1)

-----------------------------------------------------------------------------
(* Claims about the two threads, checked under SpecThreads *)

\* the threads that are inside a method of the controller
InMotion == {th \in Threads : motion[th].call.op # "none"}

\* C20: at no time are two operations of the HexapodController running: a
\* command of the GUI thread starts none while one started by the control
\* loop is running, and the other way round.
C20_OneMotion == Cardinality(InMotion) <= 1

-----------------------------------------------------------------------------
(* Further claims about the gaits and gestures, checked under SpecGait *)

\* an angle a servo accepts
InServoRange(a) == ServoMin <= a /\ a <= ServoMax

\* C24: after any sequence of gait operations, the coxa_angle, femur_angle
\* and tibia_angle stored by each of the six legs lie between 0 and 180
\* degrees.
C24_StoredAnglesInRange ==
    \A i \in LegIds :
        \E a \in {StoredAngles(legs, i)} :
            InServoRange(a.coxa) /\ InServoRange(a.femur) /\ InServoRange(a.tibia)

\* the method the control-loop thread is inside, and how many of its move_to
\* calls are done
Running == motion["loop"].call
MovesDone == Len(Moves(Running)) - Len(motion["loop"].moves)

\* this step is a move_to of the running method; this step is its return
MoveStep == Len(motion'["loop"].moves) < Len(motion["loop"].moves)
ReturnStep == Running.op # "none" /\ motion'["loop"].call.op = "none"

\* C26: wave_leg with a leg id outside 0..5 moves no leg; with a leg id in
\* 0..5 it moves that leg only, through two cycles of lifting it 20 mm
\* forward of its anchor and lowering it to stance height at its anchor,
\* where it ends; the positions and the stored angles of the other five legs
\* do not change at any step.
C26_WaveLeg ==
    [][Running.op = "wave_leg" =>
         /\ \A i \in LegIds \ {Running.leg_id} :
                /\ legs'[i] = legs[i]
                /\ StoredAngles(legs', i) = StoredAngles(legs, i)
         /\ Running.leg_id \notin LegIds => ~MoveStep /\ legs' = legs
         /\ MoveStep =>
                legs'[Running.leg_id] =
                    IF MovesDone % 2 = 0 THEN LegAt(20, 0, 0, LiftHeight)
                    ELSE LegAt(0, 0, 0, StanceHeight)
         /\ (ReturnStep /\ Running.leg_id \in LegIds) =>
                /\ MovesDone = 2 * 2
                /\ legs[Running.leg_id] = LegAt(0, 0, 0, StanceHeight)]_vars

\* wave_leg(3) has lifted leg 3 for the second time
C26_Witness ==
    /\ Running.op = "wave_leg"
    /\ Running.leg_id = 3
    /\ MovesDone = 3
    /\ legs[3] = LegAt(WaveReach, 0, 0, LiftHeight)

\* the legs of a group
Members(group) == {group[i] : i \in 1..Len(group)}

\* the legs of the k-th run of three move_to calls of a method
Trio(all, k) == {all[3 * k - 2].leg_id, all[3 * k - 1].leg_id, all[3 * k].leg_id}

\* C28: the two groups of walk_forward, turn and crab_walk are {0,3,4} and
\* {1,2,5}: disjoint, of three legs each, covering the legs 0..5, and every
\* run of three leg moves of every step of the three gaits moves one of
\* these two groups.
C28_TripodPartition ==
    /\ Members(tripod1) = {0, 3, 4}
    /\ Members(tripod2) = {1, 2, 5}
    /\ Members(tripod1) \cap Members(tripod2) = {}
    /\ Len(tripod1) = 3 /\ Len(tripod2) = 3
    /\ Members(tripod1) \cup Members(tripod2) = LegIds
    /\ Running.op \in {"walk_forward", "turn", "crab_walk"} =>
         \E all \in {Moves(Running)} :
            /\ Len(all) % 3 = 0
            /\ \A k \in 1..(Len(all) \div 3) : Trio(all, k) \in {{0, 3, 4}, {1, 2, 5}}

\* a turn of two steps or more is in its second step
C28_Witness ==
    /\ Running.op = "turn"
    /\ Running.steps >= 2
    /\ MovesDone > 12
    /\ MovesDone < 24

\* every leg of the group was last sent to the place
GroupAt(group, at) == \A i \in 1..Len(group) : legs[group[i]] = at

\* the first two phases of a step of walk_forward, and its length in phases
WalkPhasesOneTwo ==
    Running.op = "walk_forward" =>
        /\ Len(Moves(Running)) = (6 + 6 + 3) * Running.steps
        /\ MovesDone % 15 = 6 =>
              /\ GroupAt(tripod1, LegAt(0, 0, 0, LiftHeight))
              /\ GroupAt(tripod2, LegAt(StepLength, 0, 0, StanceHeight))
        /\ MovesDone % 15 = 12 =>
              /\ GroupAt(tripod1, LegAt(StepLength, 0, 0, StanceHeight))
              /\ GroupAt(tripod2, LegAt(0, 0, 0, LiftHeight))

\* a step of walk_forward has just ended
WalkStepOver == Running.op = "walk_forward" /\ MovesDone > 0 /\ MovesDone % 15 = 0

\* C30 as stated: each step of walk_forward runs three phases: (1) tripod
\* {0,3,4} lifted at its anchor while {1,2,5} is planted one step length
\* forward, (2) {0,3,4} lowered one step length forward while {1,2,5} is
\* lifted, (3) {1,2,5} lowered to stance height one step length forward of
\* its anchor; the operation ends after 3 * steps phases.
C30_PhaseOrder_Original ==
    /\ WalkPhasesOneTwo
    /\ WalkStepOver =>
          /\ GroupAt(tripod1, LegAt(StepLength, 0, 0, StanceHeight))
          /\ GroupAt(tripod2, LegAt(StepLength, 0, 0, StanceHeight))

\* C30 amended: the same three phases, but phase (2) lifts {1,2,5} at its
\* anchor and phase (3) lowers it to stance height at its anchor, not one
\* step length forward; the operation ends after 3 * steps phases.
C30_PhaseOrder ==
    /\ WalkPhasesOneTwo
    /\ WalkStepOver =>
          /\ GroupAt(tripod1, LegAt(StepLength, 0, 0, StanceHeight))
          /\ GroupAt(tripod2, LegAt(0, 0, 0, StanceHeight))

\* the first step of a walk_forward of two steps or more has ended, with
\* tripod2 back at its anchor
C30_Witness ==
    /\ WalkStepOver
    /\ Running.steps >= 2
    /\ MovesDone = 15
    /\ GroupAt(tripod2, LegAt(0, 0, 0, StanceHeight))

-----------------------------------------------------------------------------
(* Claims about Leg.move_to, checked under SpecLeg *)

\* C25: inverse_kinematics returns three angles for every target and never
\* raises, also for a target out of reach and for a target at the end of the
\* coxa (sqrt(x^2 + y^2) = coxa_length and z = 0, where d is 0).
C25_Totality == leg_out.done => ~leg_out.raised

\* C27: every angle ServoController.set_angle hands to the servo lies
\* between 0 and 180 degrees, whatever angle inverse_kinematics produced;
\* a move_to that returns has written the three servos of its leg.
C27_ServoRange ==
    (leg_out.done /\ ~leg_out.raised) =>
        /\ Len(leg_out.written) = 3
        /\ \A k \in 1..Len(leg_out.written) :
              /\ InServoRange(leg_out.written[k].angle)
              /\ leg_out.written[k].servo_id = coxa_servo(leg_in.leg_id) + k - 1

\* the rear left anchor asks 233 degrees of the coxa, and 180 were written
C27_Witness ==
    /\ leg_out.done
    /\ leg_out.coxa_angle > ServoMax
    /\ leg_out.written[1].angle = ServoMax

-----------------------------------------------------------------------------
(* Further claims about execute_action, checked under SpecExecute *)

\* C29: a command with the tag crab_walk, fist_bump or dance makes
\* execute_action call the HexapodController method of that name, as
\* walk_forward, turn, stand, sit and wave call theirs.
C29_GestureDispatch ==
    \A tag \in {"crab_walk", "fist_bump", "dance"} :
        (Executed /\ exec_in.action.isdict /\ exec_in.action.action = StrV(tag))
            => exec_out.call.op = tag

-----------------------------------------------------------------------------
(* Claims about the control loop, checked under SpecLoop *)

\* this step is a call of think
ThinkStep == loop.pc = "think" /\ loop'.pc # "think"

\* C21: a command sent by send_command while the loop runs is seen by the
\* next call of think and by no other: the last command typed, if no think
\* has seen it, is seen by the call of think that follows, and no command is
\* seen twice.
C21_VoiceHandoff ==
    /\ [](\A c \in 1..gui_voice.typed : gui_voice.heard[c] <= 1)
    /\ [][(ThinkStep /\ gui_voice.typed > 0
                     /\ gui_voice.heard[gui_voice.typed] = 0)
             => gui_voice'.heard[gui_voice.typed] = 1]_vars

\* C22: when a run_cycle has lasted longer than the watchdog timeout, the
\* watchdog has noticed it and the controller has been made to sit before
\* the next cycle executes its action.
C22_WatchdogSit ==
    (loop.pc = "execute" /\ loop.cycles > 1 /\ loop.lasted > WatchdogTimeout)
        => (loop.warned_since /\ loop.sat_since)

\* C23: an exception raised inside one cycle does not end the control loop:
\* it is caught, the recovery sit is attempted, the pass goes on to its
\* sleep, and while running is true the loop starts the next cycle; the loop
\* ends only when running was set to False or on KeyboardInterrupt.
C23_LoopSurvives ==
    /\ [](loop.pc = "ended" => loop.exit \in {"stopped", "interrupt"})
    /\ [][/\ loop'.failures > loop.failures => loop'.pc = "handler"
          /\ (loop.pc = "handler" /\ loop'.pc # "handler")
                => (loop'.pc = "sleep" /\ loop'.sits = loop.sits + 1)
          /\ (loop.pc = "sleep" /\ loop'.pc # "sleep") => loop'.pc = "top"
          /\ (loop.pc = "top" /\ loop.running /\ loop'.pc # "top")
                => (loop'.pc = "update" /\ loop'.cycles = loop.cycles + 1)]_vars

\* after a cycle that raised, the loop has started the next cycle
C23_Witness ==
    /\ loop.failures >= 1
    /\ loop.cycles >= 2
    /\ loop.pc = "update"
    /\ loop.running

-----------------------------------------------------------------------------
(* Claims about turn, checked under SpecGait *)

\* C31: in every step of turn(angle, steps), each of the six legs is planted
\* (sent to stance height) at its anchor rotated by angle / steps; no leg is
\* planted at its unrotated anchor.
C31_TurnRotatesEveryLeg ==
    [][(Running.op = "turn" /\ MoveStep) =>
          \A i \in LegIds :
              (legs'[i] # legs[i] /\ legs'[i].z = StanceHeight)
                  => legs'[i].rot = Running.angle \div Running.steps]_vars

-----------------------------------------------------------------------------
(* Claims about NavigateToTargetBehavior.execute, checked under SpecNavigate *)

\* execute was called with navigation info, and the distance is a number
Navigated == obs.op = "navigate" /\ obs.state.navigation_info.present
NavDistance == obs.state.navigation_info.distance

\* bearing - heading, before it is normalised
RawDelta == obs.state.navigation_info.bearing.v - obs.state.heading

\* the command for a turn angle: a turn past 10 degrees, else a step forward
NavCommand(delta) == IF Abs(delta) > 10 THEN Turn(delta, 1) ELSE Walk(1)

\* below the tolerance the behaviour stops with the arrival flag
NavArrival ==
    (Navigated /\ NavDistance.k = "int" /\ NavDistance.v < 5)
        => obs.result = [Act("stop") EXCEPT !.reached_target = BoolV(TRUE)]

\* C32 as stated: with navigation info and a distance of at least the
\* tolerance, the command is NavCommand(delta) for delta = bearing - heading
\* normalised into (-180, 180], so that -180 becomes 180; below the
\* tolerance it is stop with the arrival flag.
C32_NavigateCommand_Original ==
    /\ NavArrival
    /\ (Navigated /\ NavDistance.k = "int" /\ NavDistance.v >= 5)
          => \E delta \in -179..180 :
                /\ (delta - RawDelta) % 360 = 0
                /\ obs.result = NavCommand(delta)

\* C32 amended: delta is bearing - heading normalised into the closed
\* interval [-180, 180]: a difference already in that interval is kept as it
\* is (so -180 stays -180), any other is moved into it by 360; the command
\* is a turn by delta when |delta| > 10 and walk_forward otherwise; below the
\* tolerance it is stop with the arrival flag.
C32_NavigateCommand ==
    /\ NavArrival
    /\ (Navigated /\ NavDistance.k = "int" /\ NavDistance.v >= 5)
          => \E delta \in -180..180 :
                /\ (delta - RawDelta) % 360 = 0
                /\ RawDelta \in -180..180 => delta = RawDelta
                /\ obs.result = NavCommand(delta)

\* bearing 270 at heading 0 gave a turn of -90
C32_Witness ==
    /\ Navigated
    /\ NavDistance = IntV(10)
    /\ RawDelta = 270
    /\ obs.result = Turn(-90, 1)

-----------------------------------------------------------------------------
(* Further claims about _sanitize_action, checked under SpecSanitize *)

\* the first n characters of a string
FirstChars(x, n) == IF x.k = "text" /\ x.v > n THEN TextV(x.s, n) ELSE x

\* the fields of a command other than its texts
SameControl(a, b) ==
    /\ a.raised = b.raised
    /\ a.action = b.action
    /\ a.steps = b.steps /\ a.speed = b.speed /\ a.angle = b.angle
    /\ a.leg_id = b.leg_id /\ a.direction = b.direction

\* the tag and the numeric fields of the output do not depend on the texts
TextCarriesNoControl ==
    (SanDone /\ san_in.isdict) =>
        \A r \in TextVals, sp \in TextVals :
            SameControl(Sanitize([san_in EXCEPT !.reason = r, !.speech = sp]),
                        san_out)

\* C33 as stated: a string 'reason' or 'speech' of the input appears in the
\* output as its first 200 characters, and the texts never change the tag or
\* the numeric fields of the output.
C33_TextFields_Original ==
    /\ TextCarriesNoControl
    /\ (SanDone /\ san_in.isdict) =>
          /\ IsStr(san_in.reason) => san_out.reason = FirstChars(san_in.reason, 200)
          /\ IsStr(san_in.speech) => san_out.speech = FirstChars(san_in.speech, 200)

\* C33 amended: in the command returned for an input whose tag is allowed, a
\* string 'reason' or 'speech' of the input appears as its first 200
\* characters; an input that is rejected gives the fixed stop command, whose
\* reason is 'unknown_action' and which has no speech; the texts never
\* change the tag or the numeric fields of the output.
C33_TextFields ==
    /\ TextCarriesNoControl
    /\ (SanDone /\ san_in.isdict /\ ~san_out.raised) =>
          IF StrOf(Get(san_in.action, StrV("stop"))) \in allowed_actions
          THEN /\ IsStr(san_in.reason) => san_out.reason = FirstChars(san_in.reason, 200)
               /\ IsStr(san_in.speech) => san_out.speech = FirstChars(san_in.speech, 200)
          ELSE /\ san_out.reason = StrV("unknown_action")
               /\ san_out.speech = Missing

\* a reason of 250 characters came out as its first 200
C33_Witness ==
    /\ SanDone
    /\ san_in.reason = TextV("long", 250)
    /\ san_out.reason = TextV("long", 200)
    /\ san_out.action = StrV("sit")

-----------------------------------------------------------------------------
(* Further claims about Leg.move_to, checked under SpecLeg *)

\* the servo of a joint of a leg: joint 0 the coxa, 1 the femur, 2 the tibia
ServoOf(leg_id, joint) == coxa_servo(leg_id) + joint

\* C34: no two joints of the six legs share a servo id, and every servo id
\* a leg writes lies in 0..17, the ids of 18 servos.
C34_ServoIds ==
    /\ \A l1, l2 \in LegIds, j1, j2 \in 0..2 :
          ServoOf(l1, j1) = ServoOf(l2, j2) => (l1 = l2 /\ j1 = j2)
    /\ (leg_out.done /\ ~leg_out.raised) =>
          \A k \in 1..Len(leg_out.written) : leg_out.written[k].servo_id \in 0..17

-----------------------------------------------------------------------------
(* Further claims about execute_action, checked under SpecExecute *)

\* -1, 0 or 1
Sign(x) == IF x < 0 THEN -1 ELSE IF x > 0 THEN 1 ELSE 0

\* this step is a call of execute_action
ExecuteStep == ~exec_out.done /\ exec_out'.done

\* C35: with obstacles in the snapshot, a turn command with angle a reaches
\* HexapodController.turn with an angle of the sign of a, and that angle is
\* what is added to the heading; a turn to the right stays a turn to the
\* right.
C35_TurnDirection ==
    [][(/\ ExecuteStep
        /\ exec_in.obstacles
        /\ Carries(exec_in.action, "turn", exec_in.action.angle, IntV(0)))
          => /\ exec_out'.call.op = "turn"
             /\ Sign(exec_out'.call.angle)
                    = Sign(ToFloat(Get(exec_in.action.angle, IntV(0))))
             /\ heading' = (heading + exec_out'.call.angle) % 36000]_vars

\* C36: whatever the command, walk_forward is called with steps in 1..10
\* and a speed in [0.05, 1.0], turn with an angle in [-180, 180] and steps in
\* 1..10, and wave_leg with a leg id in 0..5.
C36_GaitArguments ==
    Executed =>
        /\ exec_out.call.op = "walk_forward" =>
              /\ exec_out.call.steps \in 1..10
              /\ exec_out.call.speed >= 5 /\ exec_out.call.speed <= 100
        /\ exec_out.call.op = "turn" =>
              /\ exec_out.call.angle >= -18000 /\ exec_out.call.angle <= 18000
              /\ exec_out.call.steps \in 1..10
        /\ exec_out.call.op = "wave_leg" => exec_out.call.leg_id \in 0..5

\* walk_forward with steps 11 and no obstacle was called with steps 10
C36_Witness ==
    /\ Executed
    /\ ~exec_in.obstacles
    /\ exec_in.action.action = StrV("walk_forward")
    /\ exec_in.action.steps = IntV(11)
    /\ exec_out.call.op = "walk_forward"
    /\ exec_out.call.steps = 10

-----------------------------------------------------------------------------
(* Further claims about OpenRouterClient.chat, checked under SpecChat *)

\* the most requests one call of chat can send: every model, every attempt
MostRequests == Len(all_models) * (MaxRetries + 1)

\* a call of chat is over
ChatOver == chat.calls > 0 /\ ~chat.active

\* the order of the requests of one call: the first goes to the first model
\* as its first attempt; the next goes to the same model as the next attempt,
\* or to the model after it as a first attempt, and that only when the
\* earlier model answered 429 or 404 or has used all its attempts
InListOrder ==
    Sends =>
        IF chat.requests = 0
        THEN chat'.last.model = 1 /\ chat'.last.attempt = 0
        ELSE \/ /\ chat'.last.model = chat.last.model
                /\ chat'.last.attempt = chat.last.attempt + 1
                /\ chat'.last.attempt <= MaxRetries
             \/ /\ chat'.last.model = chat.last.model + 1
                /\ chat'.last.attempt = 0
                /\ \/ chat.last.status \in {"http429", "http404"}
                   \/ chat.last.attempt = MaxRetries

\* a request is sent only inside a call, and the call ends on the first
\* usable reply
StopsOnContent ==
    /\ Sends => chat.active
    /\ (Sends /\ chat.last.call = chat.calls) => chat.last.status # "ok"
    /\ (Sends /\ chat'.last.status = "ok")
         => ~chat'.active /\ chat'.result = "content"

\* C37 as stated: one call of chat sends at most N x (R+1) requests, in list
\* order, returns the content of the first well-formed response without
\* sending a further request, and otherwise ends by raising 'All models
\* failed'.
C37_ChatTerminates_Original ==
    /\ [](chat.requests <= MostRequests)
    /\ [](ChatOver => \/ chat.result = "content" /\ chat.last.status = "ok"
                      \/ chat.result = "raised" /\ chat.last.status # "ok")
    /\ [][InListOrder /\ StopsOnContent]_vars

\* C37 amended: on a client that has an API key, one call of chat sends at
\* most N x (R+1) requests, in list order, returns the content of the first
\* well-formed response without sending a further request, and otherwise
\* ends by raising 'All models failed'; on a client without a key the call
\* raises 'No API key found' and sends nothing.
C37_ChatTerminates ==
    /\ [](chat.requests <= MostRequests)
    /\ [](ChatOver =>
            IF chat.api_key
            THEN \/ chat.result = "content" /\ chat.last.status = "ok"
                                            /\ chat.last.call = chat.calls
                 \/ chat.result = "raised" /\ chat.last.status # "ok"
                                           /\ chat.last.call = chat.calls
            ELSE chat.result = "no_key" /\ chat.sent = 0)
    /\ [][InListOrder /\ StopsOnContent]_vars

\* a call in which every attempt on every model raised: it sent all the
\* requests it may send and ended by raising
C37_Witness ==
    /\ ChatOver
    /\ chat.result = "raised"
    /\ chat.requests = MostRequests

\* what a finished call of chat is to _think_with_llm (brain.py 227-242):
\* text to parse, an exception whose text holds "429" or "Rate limit", or
\* another exception
RemoteKind(c) ==
    IF c.result = "content" THEN "reply"
    ELSE IF c.result = "raised" /\ MentionsRateLimit(c.last_err)
    THEN "rate_limit_error"
    ELSE "error"

\* C38: when a call of chat fails because every model it tried answered
\* HTTP 429, _think_with_llm records _ai_error = 'RATE_LIMIT' in the
\* snapshot.
C38_RateLimitReported ==
    (ChatOver /\ chat.result = "raised"
              /\ chat.limited = 1..Len(all_models))
        => think_with_llm(TRUE, TRUE,
                          [kind |-> RemoteKind(chat), parsed |-> NonDict]).ai_error
             = "RATE_LIMIT"

-----------------------------------------------------------------------------
(* Further claims about RobotBrain.think, checked under Spec *)

RECURSIVE SumOver(_, _)
\* the sum of the counts of the keys in keys
SumOver(counts, keys) ==
    IF keys = {} THEN 0
    ELSE LET k == CHOOSE x \in keys : TRUE
         IN  counts[k] + SumOver(counts, keys \ {k})

\* sum(performance_metrics['behaviors_executed'].values())
TallySum(counts) == SumOver(counts, DOMAIN counts)

\* C39: the sum of all per-provenance counts in behaviors_executed is at most
\* decisions_made, and one call of think increases that sum by at most one.
C39_ProvenanceTally ==
    /\ [](TallySum(behaviors_executed) <= decisions_made)
    /\ [][TallySum(behaviors_executed') - TallySum(behaviors_executed)
            \in {0, 1}]_vars

\* two decisions were made: one was tallied, the other returned without a
\* tally (the stop of a required remote planner that gave nothing)
C39_Witness ==
    /\ Thought
    /\ decisions_made = 2
    /\ TallySum(behaviors_executed) = 1
    /\ obs.path = "required_stop"

-----------------------------------------------------------------------------
(* A further claim about _sanitize_action, checked under SpecSanitize *)

\* _sanitize_action(_sanitize_action(x)): an exception of the inner call
\* leaves the outer one uncalled
SanitizeTwice(x) ==
    LET once == Sanitize(x)
    IN  IF once.raised THEN Raised ELSE Sanitize(once)

\* what _think_with_llm returns for the parsed reply whose first pass gave
\* out (brain.py 229-230), and what _finalize_decision makes of it
RemoteDecision(out) == [out EXCEPT !.behavior = StrV("llm")]
SecondPass(out) ==
    finalize_decision([s \in Sources |-> 0], <<>>, <<>>, RemoteDecision(out), "llm").result

\* C40: _sanitize_action(_sanitize_action(x)) equals _sanitize_action(x) for
\* every input command x, and a remote decision sanitized in _think_with_llm
\* is returned unchanged by the second pass in _finalize_decision.
C40_Idempotent ==
    SanDone =>
        /\ SanitizeTwice(san_in) = san_out
        /\ ~san_out.raised => SecondPass(san_out) = RemoteDecision(san_out)

\* a turn by 999 degrees was cut to 180.0 by the first pass, which changed
\* the command, and the second pass leaves the result as it is
C40_Witness ==
    /\ SanDone
    /\ san_in.angle = IntV(999)
    /\ san_out.angle = FloatV(MaxAngle * 100)
    /\ san_out # san_in
    /\ SanitizeTwice(san_in) = san_out

=============================================================================
